---- MODULE Spec2Model ----
(***************************************************************************)
(* A model of the synchronization core of fintrack-ai: the compact codec   *)
(* (utils/sync toV2Format / fromV2Format), the merge of two snapshots      *)
(* (ProfilePage mergeFinanceData), the multi-part visual-code receiver     *)
(* (LoginPage onScanSuccess) and the peer session (ProfilePage             *)
(* setupConnectionListeners, SyncPage).                                    *)
(*                                                                         *)
(* Each part has its own specification over the shared variables:          *)
(*   SpecMerge  - mergeFinanceData applied to two bounded snapshots        *)
(*   SpecCodec  - the encoders and decoders applied to bounded payloads    *)
(*   SpecLogin  - the LoginPage scanner, its effect and its callbacks      *)
(*   SpecPeer   - a host and a client ProfilePage joined by a connection   *)
(***************************************************************************)
EXTENDS Integers, Sequences, FiniteSets, TLC

VARIABLES
    \* --- mergeFinanceData (ProfilePage.tsx:21-59) ---
    hostData,       \* first argument of mergeFinanceData
    clientData,     \* second argument of mergeFinanceData
    merged,         \* the returned FinanceData
    mpc,            \* "input" before the call, "merged" after it
    \* --- the codec (utils/sync, ProfilePage.tsx:439-479) and SyncPage ---
    payload,        \* the sender's SyncPayload
    encoder,        \* "new" (utils/sync), "old" (ProfilePage), "raw" (any input)
    wire,           \* the compact object handed to the decoder
    decoded,        \* what fromV2Format returned: [ok, payload]
    cpc,            \* "start", "encoded", "decoded", "received"
    status,         \* SyncPage status line
    spUser,         \* SyncPage device: current user (useAuth)
    spStore,        \* SyncPage device: finance data in localStorage
    spKey,          \* SyncPage device: stored Gemini API key
    \* --- LoginPage (LoginPage.tsx:67-207) ---
    lmode,          \* useState mode: "create" or "scan"
    scanError,      \* useState scanError: "none", "timeout", "parse", "camera"
    scanProgress,   \* useState scanProgress (NoProgress is null)
    progChanged,    \* scanProgress is another object than at the last commit
    committedMode,  \* mode at the last commit of the scan effect
    committedNull,  \* scanProgress was null at the last commit
    scanners,       \* the Html5Qrcode objects: [st, closure]
    scannerRef,     \* scannerRef.current, 0 is null
    timers,         \* pending window.setTimeout ids
    scanTimeoutRef, \* scanTimeoutRef.current, 0 is null
    conts,          \* onScanSuccess calls suspended at await scanner.stop()
    authUser,       \* useAuth user (Undef is null)
    financeState,   \* FinanceProvider state
    storedApiKey,   \* useApiKey apiKey
    mounted,        \* LoginPage is mounted
    navigated,      \* navigate('/dashboard') was called
    lastSingle,     \* the text last handed to the single-code branch
    processed,      \* number of processPayload calls
    delivered,      \* indices of the session's envelopes delivered in this scan
    disturbed,      \* something other than the session's envelopes happened
    preScan,        \* user, snapshot and key when the last single code was handled
    lastOutcome,    \* what processPayload did last: "none", "login", "error"
    replaced,       \* the last envelope was of another session than the callback's collection
    \* --- two devices on ProfilePage (ProfilePage.tsx:62-256) ---
    pmode,          \* useState mode of each device: "select", "host", "scan"
    pdata,          \* FinanceProvider state of each device
    pkey,           \* useApiKey apiKey of each device
    imports,        \* pending import('peerjs').then callbacks, with their closure
    peer,           \* peerRef.current: [alive, open, cl]
    peerId,         \* useState peerId is set
    hasCleanup,     \* the last run of the peer effect returned its cleanup
    scanner,        \* the Html5Qrcode of the scan effect: [on, cl]
    conn,           \* the data connection: [st, dialer, dcl, acl, opened]
    inbox,          \* messages on their way to each device
    closeTimer,     \* setTimeout(() => conn.close(), 1000) is pending
    sessions,       \* connections made so far
    merges,         \* mergeFinanceData calls in this session
    committed,      \* what the host branch handed to setData: [def, data]
    applied,        \* devices whose client branch applied a payload
    hostRx,         \* the last message the host branch handled: [kind, before, after, replied]
    foreign,        \* the remote peer sent something this program never builds
    \* --- a hosting ProfilePage and its inbound connections ---
    hdata,          \* the host's finance snapshot
    hkey,           \* the host's stored API key
    hcl,            \* mode and currentSyncPayload the Peer's listeners see
    hconns,         \* per client: [st, listeners, inbox, reply, timer]
    hmerged,        \* clients whose payload the host merged
    hsync,          \* the last run of the host's data handler
    \* --- the device that receives a clone (SyncPage) ---
    cuser,          \* AuthProvider's user: [def, id, email]
    cstate,         \* the mounted FinanceProvider's state
    cstorage,       \* localStorage finTrackData_<id>: [def, data]
    ckey,           \* key of the mounted FinanceProvider
    cdirty,         \* setUser was called and the render is still to come
    creceived,      \* what the data handler passed to login
    cphase,         \* "waiting", "loggedIn", "rendered", "loggedOut"
    \* --- ProfilePage's animated code (New Device Setup) ---
    showQr,         \* useState showQr
    qrChunks,       \* useState qrChunks: the envelope strings
    currentQrIndex, \* useState currentQrIndex
    animationIntervalRef, \* animationIntervalRef.current, 0 for null
    intervals,      \* intervals set and not cleared
    canvas,         \* the string QRCode.toCanvas drew last
    qmounted,       \* ProfilePage is mounted
    qwire,          \* fullPayloadString of the last handleGenerateQrCode
    qfields,        \* what went into each string of that call
    wrapped,        \* a tick went from the last envelope back to the first
    \* --- FinanceProvider's reducer state ---
    fstate,         \* useReducer state: [accounts, transactions]
    fcalls,         \* dispatches so far
    flast,          \* the last dispatch: [action, prior, priorAfter, once, twice]
    fprev,          \* the dispatch before it
    strictMode      \* the build double-invokes reducers (React.StrictMode, development)

mergeVars == <<hostData, clientData, merged, mpc>>
codecVars == <<payload, encoder, wire, decoded, cpc, status, spUser, spStore, spKey>>

loginVars == <<lmode, scanError, scanProgress, progChanged, committedMode,
               committedNull, scanners, scannerRef, timers,
               scanTimeoutRef, conts, authUser, financeState, storedApiKey,
               mounted, navigated, lastSingle, processed, delivered, disturbed,
               preScan, lastOutcome, replaced>>

peerVars == <<pmode, pdata, pkey, imports, peer, peerId, hasCleanup, scanner,
              conn, inbox, closeTimer, sessions, merges, committed, applied,
              hostRx, foreign>>

hostVars == <<hdata, hkey, hcl, hconns, hmerged, hsync>>

cloneVars == <<cuser, cstate, cstorage, ckey, cdirty, creceived, cphase>>

animVars == <<showQr, qrChunks, currentQrIndex, animationIntervalRef,
              intervals, canvas, qmounted, qwire, qfields, wrapped>>

finVars == <<fstate, fcalls, flast, fprev, strictMode>>

vars == <<mergeVars, codecVars, loginVars, peerVars, hostVars, cloneVars,
          animVars, finVars>>

(***************************************************************************)
(* Bounds                                                                  *)
(***************************************************************************)
MaxTx == 2          \* transactions per side
MaxDate == 2        \* dates are 1..MaxDate (days; later is larger)
MaxHold == 2        \* holdings per account
MaxRows == 1        \* rows per array of a codec payload
NumChunks == 2      \* envelopes the wire string is split into
MaxScanners == 2    \* Html5Qrcode objects alive at a time
MaxProcessed == 1   \* processPayload calls after which the camera shows nothing more
MaxImports == 1     \* import('peerjs') promises pending on one device
MaxSessions == 1    \* connections between the two devices
ChunkSize == 8      \* QR_CHUNK_SIZE: characters per envelope fragment
MaxBody == 9        \* characters of the wire string after its tag
MaxCalls == 3       \* dispatches to the finance reducer

(***************************************************************************)
(* Generic helpers                                                         *)
(***************************************************************************)
Range(s) == {s[i] : i \in 1..Len(s)}

RECURSIVE SumValues(_)
\* holdings.reduce((sum, h) => sum + h.value, 0)
SumValues(hs) == IF hs = <<>> THEN 0 ELSE hs[1].value + SumValues(Tail(hs))

\* Sequences over S of length at most n with pairwise distinct ids.
RECURSIVE SeqsUpTo(_, _)
SeqsUpTo(S, n) ==
    IF n = 0 THEN {<<>>}
    ELSE LET shorter == SeqsUpTo(S, n - 1)
         IN shorter \cup {Append(s, x) : s \in {t \in shorter : Len(t) = n - 1},
                                          x \in S}

DistinctIds(s) == \A i, j \in 1..Len(s) : i # j => s[i].id # s[j].id

Ids(s) == {s[i].id : i \in 1..Len(s)}

(***************************************************************************)
(* mergeFinanceData, ProfilePage.tsx:21-59                                 *)
(* A JS Map is modelled as the sequence of its values in insertion order;  *)
(* every value carries its key in .id.                                     *)
(***************************************************************************)
MapHas(m, id) == \E i \in 1..Len(m) : m[i].id = id

MapGet(m, id) == m[CHOOSE i \in 1..Len(m) : m[i].id = id]

\* Map.set: an existing key keeps its position and takes the new value.
MapSet(m, item) ==
    IF MapHas(m, item.id)
    THEN [i \in 1..Len(m) |-> IF m[i].id = item.id THEN item ELSE m[i]]
    ELSE Append(m, item)

RECURSIVE createMap(_)
\* new Map(arr.map(item => [item.id, item]))
createMap(arr) ==
    IF arr = <<>> THEN <<>>
    ELSE MapSet(createMap(SubSeq(arr, 1, Len(arr) - 1)), arr[Len(arr)])

RECURSIVE AddMissing(_, _)
\* arr.forEach(x => { if (!map.has(x.id)) map.set(x.id, x) })
AddMissing(m, arr) ==
    IF arr = <<>> THEN m
    ELSE AddMissing(IF MapHas(m, arr[1].id) THEN m ELSE MapSet(m, arr[1]),
                    Tail(arr))

RECURSIVE InsertDesc(_, _)
\* Position of x in a list already ordered newest first; equal keys keep
\* their relative order (Array.prototype.sort is stable).
InsertDesc(sorted, x) ==
    IF sorted = <<>> THEN <<x>>
    ELSE IF sorted[1].date >= x.date
         THEN <<sorted[1]>> \o InsertDesc(Tail(sorted), x)
         ELSE <<x>> \o sorted

RECURSIVE SortByDateDesc(_)
\* .sort((a, b) => new Date(b.date).getTime() - new Date(a.date).getTime())
SortByDateDesc(arr) ==
    IF arr = <<>> THEN <<>>
    ELSE InsertDesc(SortByDateDesc(SubSeq(arr, 1, Len(arr) - 1)), arr[Len(arr)])

\* hostAcc.holdings || []   (holdings is [def, items]; def = FALSE is undefined)
HoldingsOrEmpty(acc) == IF acc.holdings.def THEN acc.holdings.items ELSE <<>>

\* ProfilePage.tsx:36-43, the branch for an account id present on both sides
MergeAccount(hostAcc, clientAcc) ==
    LET mergedHoldings == AddMissing(createMap(HoldingsOrEmpty(hostAcc)),
                                     HoldingsOrEmpty(clientAcc))
    IN [hostAcc EXCEPT !.holdings = [def |-> TRUE, items |-> mergedHoldings],
                       !.balance = SumValues(mergedHoldings)]

RECURSIVE MergeAccounts(_, _)
\* ProfilePage.tsx:32-45
MergeAccounts(m, clientAccounts) ==
    IF clientAccounts = <<>> THEN m
    ELSE LET clientAcc == clientAccounts[1]
         IN MergeAccounts(
               IF ~MapHas(m, clientAcc.id)
               THEN MapSet(m, clientAcc)
               ELSE MapSet(m, MergeAccount(MapGet(m, clientAcc.id), clientAcc)),
               Tail(clientAccounts))

\* The merge of the transactions without the final sort.
MergeTransactionsUnsorted(hostTx, clientTx) ==
    AddMissing(createMap(hostTx), clientTx)

MergeTransactions(hostTx, clientTx) ==
    SortByDateDesc(AddMissing(createMap(hostTx), clientTx))

Now == "now"    \* new Date().toISOString() at the time of the merge

mergeFinanceData(h, c) ==
    [transactions |-> MergeTransactions(h.transactions, c.transactions),
     accounts |-> MergeAccounts(createMap(h.accounts), c.accounts),
     conversationHistory |->
         SortByDateDesc(AddMissing(createMap(h.conversationHistory),
                                   c.conversationHistory)),
     lastUpdated |-> Now]

(***************************************************************************)
(* Bounded inputs of the merge                                             *)
(***************************************************************************)
TxIds == {"t1", "t2", "t3"}
Dates == 1..MaxDate

\* A transaction of one side; description tells the two sides' records apart.
TxOf(side) ==
    [id : TxIds, date : Dates, description : {side}]

TxLists(side) == {s \in SeqsUpTo(TxOf(side), MaxTx) : DistinctIds(s)}

HoldIds == {"h1", "h2"}
HoldNames == {"AAPL", "aapl", "BTC"}

\* name.toLowerCase()
ToLower(s) == IF s = "AAPL" THEN "aapl" ELSE s

\* The host's holdings are 1 unit worth 150, the client's 2 units worth 300.
HoldingOf(side) ==
    [id : HoldIds, name : HoldNames,
     quantity : {IF side = "host" THEN 1 ELSE 2},
     value : {IF side = "host" THEN 150 ELSE 300}]

HoldingLists(side) == {s \in SeqsUpTo(HoldingOf(side), MaxHold) : DistinctIds(s)}

NoHoldings == [def |-> FALSE, items |-> <<>>]

\* An account of one side: without holdings any balance of the side, with
\* holdings the sum of their values (types.ts:57).
AccountOf(side) ==
    {[id |-> "a1", name |-> "Brokerage", balance |-> b, holdings |-> NoHoldings]
        : b \in {IF side = "host" THEN 1000 ELSE 500}}
    \cup
    {[id |-> "a1", name |-> "Brokerage", balance |-> SumValues(hs),
      holdings |-> [def |-> TRUE, items |-> hs]] : hs \in HoldingLists(side)}

\* A second account that only one side may have.
OtherAccount(side) ==
    [id |-> IF side = "host" THEN "a2" ELSE "a3", name |-> "Checking",
     balance |-> 70, holdings |-> NoHoldings]

AccountLists(side) ==
    {<<>>} \cup {<<a>> : a \in AccountOf(side)}
           \cup {<<OtherAccount(side), a>> : a \in AccountOf(side)}

ConvOf(side) == [id : {"c1", "c2"}, date : {1}, description : {side}]

ConvLists(side) == {<<>>} \cup {<<c>> : c \in ConvOf(side)}

FinanceOf(side, txs, accs, convs) ==
    [transactions |-> txs, accounts |-> accs, conversationHistory |-> convs,
     lastUpdated |-> side]

EmptyFinance == FinanceOf("init", <<>>, <<>>, <<>>)

(***************************************************************************)
(* JavaScript values of the codec: strings, numbers, objects, null and     *)
(* undefined, with the truthiness that || tests.                           *)
(***************************************************************************)
Str(x) == [k |-> "str", n |-> 0, s |-> x]
Num(x) == [k |-> "num", n |-> x, s |-> ""]
Obj(x) == [k |-> "obj", n |-> 0, s |-> x]
Undef == [k |-> "undef", n |-> 0, s |-> ""]
Null == [k |-> "null", n |-> 0, s |-> ""]

Falsy(v) ==
    \/ v.k \in {"undef", "null"}
    \/ v.k = "str" /\ v.s = ""
    \/ v.k = "num" /\ v.n = 0

\* a || b
OrElse(a, b) == IF Falsy(a) THEN b ELSE a

\* row[i] with the 0-based index of the source; past the end is undefined
At(cells, i) == IF i + 1 <= Len(cells) THEN cells[i + 1] ELSE Undef

MapSeq(f(_), arr) == [i \in 1..Len(arr) |-> f(arr[i])]

\* A compact row as the decoder may meet it: an array of cells, null, or a
\* primitive (indexing a primitive gives undefined, indexing null throws).
Row(cells) == [kind |-> "arr", cells |-> cells]
NullRow == [kind |-> "null", cells |-> <<>>]
PrimRow == [kind |-> "prim", cells |-> <<>>]

\* A value in an array position: an array of rows or something with no .map
Arr(rows) == [isArr |-> TRUE, rows |-> rows]
NotArr == [isArr |-> FALSE, rows |-> <<>>]

\* An account row: five cells and the holdings slot a[5]
AccRow(cells, slot) == [kind |-> "arr", cells |-> cells, slot |-> slot]

DefaultSettings == Obj("USD")       \* { displayCurrency: 'USD' }
IdleStatus == Obj("idle")           \* aiProcessingStatus: { isProcessing: false, message: '' }

\* A received object without the properties of the legacy format
\* (receivedData.user and receivedData.financeData are undefined).
NoLegacy ==
    [def |-> FALSE, settings |-> Undef, transactions |-> NotArr,
     accounts |-> NotArr, transactionCategories |-> Undef, lastUpdated |-> Undef]

(***************************************************************************)
(* toV2Format, utils/sync (unnamed/part_007:4-48)                          *)
(***************************************************************************)
compactTransaction(t) ==
    Row(<<t.id, t.date, t.description, t.amount, t.category,
          OrElse(t.accountName, Null)>>)

compactHolding(h) ==
    Row(<<h.id, h.name, OrElse(h.ticker, Null), h.quantity, h.price, h.value,
          OrElse(h.apiId, Null)>>)

\* a.holdings?.map(...) || []
compactHoldings(a) ==
    IF a.holdings.def THEN MapSeq(compactHolding, a.holdings.items) ELSE <<>>

compactAccount(a) ==
    AccRow(<<a.id, a.name, a.category, OrElse(a.institution, Null), a.balance>>,
           Arr(compactHoldings(a)))

toV2Format(data) ==
    [v |-> Num(2),
     u |-> data.user,
     hasD |-> TRUE,
     d |-> [s |-> data.financeData.settings,
            t |-> Arr(MapSeq(compactTransaction, data.financeData.transactions)),
            a |-> Arr(MapSeq(compactAccount, data.financeData.accounts)),
            tc |-> data.financeData.transactionCategories,
            lu |-> data.financeData.lastUpdated],
     gK |-> data.geminiApiKey,
     k |-> Undef, user |-> Undef, financeData |-> NoLegacy,
     geminiApiKey |-> Undef, apiKey |-> Undef]

(***************************************************************************)
(* The older encoder, ProfilePage.tsx:439-479: holding rows of 5 cells,    *)
(* the credential under k, no v and no settings.                           *)
(***************************************************************************)
compactHoldingOld(h) ==
    Row(<<h.id, h.name, OrElse(h.ticker, Null), h.quantity, h.value>>)

compactAccountOld(a) ==
    AccRow(<<a.id, a.name, a.category, OrElse(a.institution, Null), a.balance>>,
           Arr(IF a.holdings.def THEN MapSeq(compactHoldingOld, a.holdings.items)
               ELSE <<>>))

toV2FormatOld(data) ==
    [v |-> Undef,
     u |-> data.user,
     hasD |-> TRUE,
     d |-> [s |-> Undef,
            t |-> Arr(MapSeq(compactTransaction, data.financeData.transactions)),
            a |-> Arr(MapSeq(compactAccountOld, data.financeData.accounts)),
            tc |-> data.financeData.transactionCategories,
            lu |-> data.financeData.lastUpdated],
     gK |-> Undef,
     k |-> data.apiKey, user |-> Undef, financeData |-> NoLegacy,
     geminiApiKey |-> Undef, apiKey |-> Undef]

(***************************************************************************)
(* fromV2Format, utils/sync (unnamed/part_007:51-102)                      *)
(***************************************************************************)
\* The property reads and calls that raise a TypeError inside the try block.
HoldingsSlotThrows(a) ==
    \/ a.kind = "null"                         \* null[5]
    \/ a.kind = "prim"                         \* undefined.map
    \/ ~a.slot.isArr                           \* a[5].map is not a function
    \/ \E i \in 1..Len(a.slot.rows) : a.slot.rows[i].kind = "null"

fromV2Throws(c) ==
    \/ ~c.hasD                                               \* compactData.d.t
    \/ ~c.d.t.isArr
    \/ \E i \in 1..Len(c.d.t.rows) : c.d.t.rows[i].kind = "null"
    \/ ~c.d.a.isArr
    \/ \E i \in 1..Len(c.d.a.rows) : HoldingsSlotThrows(c.d.a.rows[i])

decodeTransaction(t) ==
    [id |-> At(t.cells, 0), date |-> At(t.cells, 1),
     description |-> At(t.cells, 2), amount |-> At(t.cells, 3),
     category |-> At(t.cells, 4),
     accountName |-> OrElse(At(t.cells, 5), Undef),
     originalAmount |-> Undef]

decodeHolding(h) ==
    [id |-> At(h.cells, 0), name |-> At(h.cells, 1),
     ticker |-> OrElse(At(h.cells, 2), Undef),
     quantity |-> At(h.cells, 3), price |-> At(h.cells, 4),
     value |-> At(h.cells, 5),
     apiId |-> OrElse(At(h.cells, 6), Undef)]

decodeAccount(a) ==
    LET holdings == MapSeq(decodeHolding, a.slot.rows)
    IN [id |-> At(a.cells, 0), name |-> At(a.cells, 1),
        category |-> At(a.cells, 2),
        institution |-> OrElse(At(a.cells, 3), Undef),
        balance |-> At(a.cells, 4),
        \* holdings.length > 0 ? holdings : undefined
        holdings |-> IF Len(holdings) > 0
                     THEN [def |-> TRUE, items |-> holdings]
                     ELSE NoHoldings]

NoPayload ==
    [user |-> Undef,
     financeData |-> [settings |-> Undef, transactions |-> <<>>,
                      accounts |-> <<>>, transactionCategories |-> Undef,
                      lastUpdated |-> Undef, conversationHistory |-> <<>>,
                      aiProcessingStatus |-> Undef],
     geminiApiKey |-> Undef]

\* return null
NullResult == [ok |-> FALSE, payload |-> NoPayload]

fromV2Format(c) ==
    IF fromV2Throws(c) THEN NullResult
    ELSE [ok |-> TRUE,
          payload |->
            [user |-> c.u,
             financeData |->
               [settings |-> OrElse(c.d.s, DefaultSettings),
                transactions |-> MapSeq(decodeTransaction, c.d.t.rows),
                accounts |-> MapSeq(decodeAccount, c.d.a.rows),
                transactionCategories |-> c.d.tc,
                lastUpdated |-> c.d.lu,
                conversationHistory |-> <<>>,
                aiProcessingStatus |-> IdleStatus],
             geminiApiKey |-> OrElse(c.gK, Null)]]

(***************************************************************************)
(* SyncPage conn.on('data'), SyncPage.tsx:46-89                            *)
(***************************************************************************)
\* JSON.parse(JSON.stringify(x)): an undefined array element comes back as
\* null, an undefined property comes back as undefined.
JsonCell(v) == IF v.k = "undef" THEN Null ELSE v

JsonRow(r) == [r EXCEPT !.cells = MapSeq(JsonCell, r.cells)]

JsonAccRow(r) ==
    [r EXCEPT !.cells = MapSeq(JsonCell, r.cells),
              !.slot = [r.slot EXCEPT !.rows = MapSeq(JsonRow, r.slot.rows)]]

JsonRoundTrip(c) ==
    [c EXCEPT !.d = [c.d EXCEPT !.t = [c.d.t EXCEPT !.rows = MapSeq(JsonRow, c.d.t.rows)],
                                !.a = [c.d.a EXCEPT !.rows = MapSeq(JsonAccRow, c.d.a.rows)]]]

DefaultCategories == Obj("defaultTransactionCategories")

\* x || []  for a property that should hold an array of domain records
ItemsOrEmpty(a) == IF a.isArr THEN a.rows ELSE <<>>

\* SyncPage.tsx:57-70, the legacy V1 branch
legacyPayload(r) ==
    [ok |-> TRUE,
     payload |->
       [user |-> r.user,
        financeData |->
          [settings |-> OrElse(r.financeData.settings, DefaultSettings),
           transactions |-> ItemsOrEmpty(r.financeData.transactions),
           accounts |-> ItemsOrEmpty(r.financeData.accounts),
           transactionCategories |->
               OrElse(r.financeData.transactionCategories, DefaultCategories),
           lastUpdated |-> OrElse(r.financeData.lastUpdated, Str(Now)),
           conversationHistory |-> <<>>,
           aiProcessingStatus |-> IdleStatus],
        geminiApiKey |-> OrElse(r.geminiApiKey, OrElse(r.apiKey, Null))]]

\* SyncPage.tsx:52-71: the dispatch on the received object
receivedPayload(r) ==
    IF r.v = Num(2) THEN fromV2Format(r)
    ELSE IF ~Falsy(r.user) /\ r.financeData.def THEN legacyPayload(r)
    ELSE NullResult

\* payload && payload.user && payload.financeData
Accepted(res) == res.ok /\ ~Falsy(res.payload.user)

NoStore == [def |-> FALSE, user |-> Undef, data |-> NoPayload.financeData]

(***************************************************************************)
(* Bounded payloads                                                        *)
(***************************************************************************)
CodecTx ==
    [id : {Str("t1")}, date : {Str("2024-01-02")}, description : {Str("Coffee")},
     amount : {Num(-5)}, category : {Str("Food")},
     accountName : {Undef, Str("Brokerage")},
     originalAmount : {Undef, Obj("5 EUR")}]

CodecHolding ==
    [id : {Str("h1")}, name : {Str("Apple")}, ticker : {Undef, Str("AAPL")},
     quantity : {Num(2)}, price : {Num(150)}, value : {Num(300)},
     apiId : {Undef, Str("apple")}]

CodecAccount ==
    {[id |-> Str("a1"), name |-> Str("Brokerage"), category |-> Str("Equities"),
      institution |-> i, balance |-> Num(300),
      holdings |-> [def |-> TRUE, items |-> <<h>>]]
        : i \in {Undef, Str("Fidelity")}, h \in CodecHolding}
    \cup
    {[id |-> Str("a1"), name |-> Str("Checking"), category |-> Str("Bank Accounts"),
      institution |-> i, balance |-> Num(1000), holdings |-> hs]
        : i \in {Undef, Str("Chase")},
          hs \in {NoHoldings, [def |-> TRUE, items |-> <<>>]}}

CodecFinance ==
    [settings : {Obj("EUR")},
     transactions : SeqsUpTo(CodecTx, MaxRows),
     accounts : SeqsUpTo(CodecAccount, MaxRows),
     transactionCategories : {Obj("categories")},
     lastUpdated : {Str("2024-01-03")},
     conversationHistory : {<<>>},
     aiProcessingStatus : {IdleStatus}]

\* types.ts:82-86
Payloads ==
    [user : {Obj("u1")}, financeData : CodecFinance,
     geminiApiKey : {Null, Str("key")}]

\* The payload type of the older build: no price, no apiId, no settings,
\* the credential under apiKey, '' when the device has none
\* (ProfilePage.tsx:509-521).
OldHolding ==
    [id : {Str("h1")}, name : {Str("Apple")}, ticker : {Undef, Str("AAPL")},
     quantity : {Num(2)}, value : {Num(300)}]

OldAccount ==
    {[id |-> Str("a1"), name |-> Str("Brokerage"), category |-> Str("Equities"),
      institution |-> Undef, balance |-> Num(300),
      holdings |-> [def |-> TRUE, items |-> <<h>>]] : h \in OldHolding}
    \cup
    {[id |-> Str("a1"), name |-> Str("Checking"), category |-> Str("Bank Accounts"),
      institution |-> Str("Chase"), balance |-> Num(1000), holdings |-> NoHoldings]}

OldPayloads ==
    [user : {Obj("u1")},
     financeData : [transactions :
                        SeqsUpTo({t \in CodecTx : t.originalAmount = Undef}, MaxRows),
                    accounts : SeqsUpTo(OldAccount, MaxRows),
                    transactionCategories : {Obj("categories")},
                    lastUpdated : {Str("2024-01-03")},
                    conversationHistory : {<<>>}],
     apiKey : {Str(""), Str("key")}]

FullTxRow == Row(<<Str("t1"), Str("2024-01-02"), Str("Coffee"), Num(-5), Str("Food"), Null>>)
FullAccCells == <<Str("a1"), Str("Checking"), Str("Bank Accounts"), Null, Num(1000)>>
FullHoldingRow ==
    Row(<<Str("h1"), Str("Apple"), Null, Num(2), Num(150), Num(300), Null>>)

\* What may stand in d.t of a received object
RawTxArrays ==
    {NotArr, Arr(<<>>), Arr(<<FullTxRow>>),
     Arr(<<Row(<<Str("t1"), Str("2024-01-02")>>)>>),          \* truncated row
     Arr(<<Row(<<Num(7), Str("2024-01-02"), Str("Coffee"), Str("five"),
                 Str("Food"), Null>>)>>),                     \* wrong types
     Arr(<<NullRow>>), Arr(<<PrimRow>>)}

\* What may stand in d.a of a received object
RawAccArrays ==
    {NotArr, Arr(<<>>),
     Arr(<<AccRow(FullAccCells, Arr(<<>>))>>),
     Arr(<<AccRow(FullAccCells, Arr(<<FullHoldingRow>>))>>),
     Arr(<<AccRow(FullAccCells, NotArr)>>),                   \* no holdings array
     Arr(<<AccRow(<<Str("a1")>>, Arr(<<>>))>>),               \* truncated row
     Arr(<<AccRow(FullAccCells, Arr(<<Row(<<Str("h1")>>)>>))>>),
     Arr(<<AccRow(FullAccCells, Arr(<<NullRow>>))>>),
     Arr(<<[kind |-> "null", cells |-> <<>>, slot |-> NotArr]>>)}

\* Objects a peer may send that no encoder of this repository produced
RawInputs ==
    {[v |-> Num(2), u |-> u, hasD |-> hasD,
      d |-> [s |-> Undef, t |-> t, a |-> a, tc |-> Obj("categories"),
             lu |-> Str("2024-01-03")],
      gK |-> Null, k |-> Undef, user |-> Undef, financeData |-> NoLegacy,
     geminiApiKey |-> Undef, apiKey |-> Undef]
        : u \in {Obj("u1"), Undef}, hasD \in BOOLEAN,
          t \in RawTxArrays, a \in RawAccArrays}

\* An object in the legacy V1 format (named fields)
LegacyInputs ==
    {[v |-> Undef, u |-> Undef, hasD |-> FALSE,
      d |-> [s |-> Undef, t |-> NotArr, a |-> NotArr, tc |-> Undef, lu |-> Undef],
      gK |-> Undef, k |-> Undef, user |-> Obj("u1"),
      financeData |-> [def |-> TRUE, settings |-> Undef, transactions |-> txs,
                       accounts |-> NotArr, transactionCategories |-> Undef,
                       lastUpdated |-> Str("2024-01-03")],
      geminiApiKey |-> Undef, apiKey |-> key]
        : key \in {Undef, Str("key")},
          txs \in {NotArr} \cup {Arr(<<t>>) : t \in CodecTx}}

EmptyWire == toV2Format(NoPayload)

(***************************************************************************)
(* SpecCodec                                                               *)
(***************************************************************************)
InitCodec ==
    /\ decoded = NullResult
    /\ status = "Initializing..."
    /\ spUser = Undef
    /\ spStore = NoStore
    /\ spKey = Null
    /\ \/ encoder = "new" /\ payload \in Payloads
          /\ wire = EmptyWire /\ cpc = "start"
       \/ encoder = "old" /\ payload \in OldPayloads
          /\ wire = EmptyWire /\ cpc = "start"
       \/ encoder = "raw" /\ payload = NoPayload
          /\ wire \in RawInputs \cup LegacyInputs /\ cpc = "encoded"

\* utils/sync toV2Format applied by the sender
Encode ==
    /\ cpc = "start" /\ encoder = "new"
    /\ wire' = toV2Format(payload)
    /\ cpc' = "encoded"
    /\ UNCHANGED <<payload, encoder, decoded, status, spUser, spStore, spKey>>

\* ProfilePage.tsx:523, the older build's toV2Format applied by the sender
EncodeOld ==
    /\ cpc = "start" /\ encoder = "old"
    /\ wire' = toV2FormatOld(payload)
    /\ cpc' = "encoded"
    /\ UNCHANGED <<payload, encoder, decoded, status, spUser, spStore, spKey>>

\* fromV2Format applied to the compact object
Decode ==
    /\ cpc = "encoded"
    /\ decoded' = fromV2Format(wire)
    /\ cpc' = "decoded"
    /\ UNCHANGED <<payload, encoder, wire, status, spUser, spStore, spKey>>

\* SyncPage.tsx:46-89: the object arrives over the peer link as JSON
SyncPageData ==
    /\ cpc = "encoded"
    /\ LET res == receivedPayload(JsonRoundTrip(wire))
       IN /\ decoded' = res
          /\ IF Accepted(res)
             THEN /\ spKey' = IF ~Falsy(res.payload.geminiApiKey)
                              THEN res.payload.geminiApiKey ELSE spKey
                  \* login(payload.user, payload.financeData), useAuth.tsx:71-88
                  /\ spStore' = [def |-> TRUE, user |-> res.payload.user,
                                 data |-> res.payload.financeData]
                  /\ spUser' = res.payload.user
                  /\ status' = "Sync complete! Welcome back."
             ELSE /\ status' = "Error: Failed to process data. Please try again."
                  /\ UNCHANGED <<spUser, spStore, spKey>>
    /\ cpc' = "received"
    /\ UNCHANGED <<payload, encoder, wire>>

\* The status of the render whose effect installed the listeners: status is
\* not among the effect's dependencies (SyncPage.tsx:18, 21, 115)
ListenerStatus == "Initializing..."

\* status.includes('...')
IncludesDots(s) ==
    s \in {"Initializing...", "Connecting to your other device...",
           "Connection established. Waiting for data...",
           "Data received. Setting up your profile..."}

\* conn.on('close'), SyncPage.tsx:96-100, for the conn.close() of line 87
SyncPageClose ==
    /\ cpc = "received"
    /\ status' = IF IncludesDots(ListenerStatus)
                 THEN "The connection was closed. Please try again."
                 ELSE status
    /\ cpc' = "closed"
    /\ UNCHANGED <<payload, encoder, wire, decoded, spUser, spStore, spKey>>

NextCodec == Encode \/ EncodeOld \/ Decode \/ SyncPageData \/ SyncPageClose

(***************************************************************************)
(* Claims about the codec                                                  *)
(***************************************************************************)
\* C1: decoding what toV2Format encoded gives back the identity, the
\* credential and every field of every transaction, account and holding of
\* the payload, in the same order.
C1_RoundTrip ==
    (cpc = "decoded" /\ encoder = "new") =>
        /\ decoded.ok
        /\ decoded.payload.user = payload.user
        /\ decoded.payload.geminiApiKey = payload.geminiApiKey
        /\ decoded.payload.financeData.transactions
              = payload.financeData.transactions
        /\ decoded.payload.financeData.accounts = payload.financeData.accounts

IsStr(v) == v.k = "str"
IsNum(v) == v.k = "num"

TxWellTyped(t) ==
    IsStr(t.id) /\ IsStr(t.date) /\ IsStr(t.description) /\ IsNum(t.amount)
    /\ IsStr(t.category)

HoldingWellTyped(h) ==
    IsStr(h.id) /\ IsStr(h.name) /\ IsNum(h.quantity) /\ IsNum(h.price)
    /\ IsNum(h.value)

AccountWellTyped(a) ==
    /\ IsStr(a.id) /\ IsStr(a.name) /\ IsStr(a.category) /\ IsNum(a.balance)
    /\ \A h \in Range(a.holdings.items) : HoldingWellTyped(h)

FinanceWellTyped(f) ==
    /\ \A t \in Range(f.transactions) : TxWellTyped(t)
    /\ \A a \in Range(f.accounts) : AccountWellTyped(a)

\* C8: fromV2Format returns null or a payload whose transactions, accounts
\* and holdings have every required field with the right type, and the
\* peer receiver never logs in with a payload that lacks one.
C8_DecoderDefensive ==
    /\ (cpc = "decoded" /\ decoded.ok)
          => FinanceWellTyped(decoded.payload.financeData)
    /\ (cpc = "received" /\ wire.v = Num(2) /\ spStore.def)
          => FinanceWellTyped(spStore.data)

HoldingFigures(accs) ==
    [i \in 1..Len(accs) |->
        [balance |-> accs[i].balance,
         holdings |-> [j \in 1..Len(accs[i].holdings.items) |->
                          [quantity |-> accs[i].holdings.items[j].quantity,
                           value |-> accs[i].holdings.items[j].value]]]]

\* C9: a payload of the older encoder is understood by the newer decoder:
\* the decoded payload has the sender's holding quantities and values, its
\* account balances and its credential.
C9_OldSenderUnderstood ==
    (encoder = "old" /\ cpc \in {"decoded", "received"}) =>
        /\ decoded.ok
        /\ HoldingFigures(decoded.payload.financeData.accounts)
              = HoldingFigures(payload.financeData.accounts)
        /\ decoded.payload.geminiApiKey = payload.apiKey

(***************************************************************************)
(* The merge applied to bounded snapshots                                  *)
(***************************************************************************)
\* Either two transaction lists or two account lists are drawn freely.
InitMerge ==
    /\ mpc = "input"
    /\ merged = EmptyFinance
    /\ \/ /\ \E ht \in TxLists("host"), hc \in ConvLists("host") :
               hostData = FinanceOf("host", ht, <<>>, hc)
          /\ \E ct \in TxLists("client"), cc \in ConvLists("client") :
               clientData = FinanceOf("client", ct, <<>>, cc)
       \/ /\ \E ha \in AccountLists("host") :
               hostData = FinanceOf("host", <<>>, ha, <<>>)
          /\ \E ca \in AccountLists("client") :
               clientData = FinanceOf("client", <<>>, ca, <<>>)

\* const finalFinanceData = mergeFinanceData(hostPayload, remotePayload)
Merge ==
    /\ mpc = "input"
    /\ merged' = mergeFinanceData(hostData, clientData)
    /\ mpc' = "merged"
    /\ UNCHANGED <<hostData, clientData>>

NextMerge == Merge


(***************************************************************************)
(* Claims about mergeFinanceData                                           *)
(***************************************************************************)
NewestFirst(s) == \A i, j \in 1..Len(s) : i < j => s[i].date >= s[j].date

\* C3: the merged transactions hold exactly the ids of the union of both
\* sides, each once; a host record is kept as it is, a record whose id only
\* the client has is inserted as it is; the list is ordered newest first.
C3_TransactionsUnion ==
    mpc = "merged" =>
        /\ Ids(merged.transactions)
              = Ids(hostData.transactions) \cup Ids(clientData.transactions)
        /\ DistinctIds(merged.transactions)
        /\ \A t \in Range(hostData.transactions) :
              t \in Range(merged.transactions)
        /\ \A t \in Range(clientData.transactions) :
              t.id \notin Ids(hostData.transactions)
                  => t \in Range(merged.transactions)
        /\ NewestFirst(merged.transactions)

\* A merge with a shared id, an id only the client has, and a host list that
\* was not ordered newest first.
C3_Witness ==
    /\ mpc = "merged"
    /\ Ids(hostData.transactions) \cap Ids(clientData.transactions) # {}
    /\ Ids(clientData.transactions) \ Ids(hostData.transactions) # {}
    /\ ~NewestFirst(hostData.transactions)
    /\ Len(merged.transactions) = 3

AccountIdsOnBothSides == Ids(hostData.accounts) \cap Ids(clientData.accounts)

NamesOf(hs) == {ToLower(hs[i].name) : i \in 1..Len(hs)}

WithName(hs, n) == SelectSeq(hs, LAMBDA h : ToLower(h.name) = n)

RECURSIVE SumQuantities(_)
SumQuantities(hs) ==
    IF hs = <<>> THEN 0 ELSE hs[1].quantity + SumQuantities(Tail(hs))

\* C4: for an account id on both sides, a holding name (compared without
\* case) held on both sides gives one merged holding whose quantity and
\* value are the sums of the two sides; a name held on one side only is
\* carried over unchanged.
C4_HoldingsSummedByName ==
    mpc = "merged" =>
        \A id \in AccountIdsOnBothSides :
            LET hh == HoldingsOrEmpty(MapGet(hostData.accounts, id))
                ch == HoldingsOrEmpty(MapGet(clientData.accounts, id))
                mh == HoldingsOrEmpty(MapGet(merged.accounts, id))
            IN /\ \A n \in NamesOf(hh) \cap NamesOf(ch) :
                    /\ Len(WithName(mh, n)) = 1
                    /\ WithName(mh, n)[1].quantity
                          = SumQuantities(WithName(hh, n))
                            + SumQuantities(WithName(ch, n))
                    /\ WithName(mh, n)[1].value
                          = SumValues(WithName(hh, n)) + SumValues(WithName(ch, n))
               /\ \A n \in NamesOf(hh) \ NamesOf(ch) :
                    WithName(mh, n) = WithName(hh, n)
               /\ \A n \in NamesOf(ch) \ NamesOf(hh) :
                    WithName(mh, n) = WithName(ch, n)

\* C5: for an account id on both sides the merged balance is the sum of the
\* merged holdings' values when there are merged holdings, and the balance
\* the account already had when neither side has holdings; an account of
\* one side only keeps its balance.
C5_BalanceAfterMerge ==
    mpc = "merged" =>
        /\ \A id \in AccountIdsOnBothSides :
              LET ha == MapGet(hostData.accounts, id)
                  ca == MapGet(clientData.accounts, id)
                  ma == MapGet(merged.accounts, id)
              IN /\ HoldingsOrEmpty(ma) # <<>>
                      => ma.balance = SumValues(HoldingsOrEmpty(ma))
                 /\ (HoldingsOrEmpty(ha) = <<>> /\ HoldingsOrEmpty(ca) = <<>>)
                      => ma.balance = ha.balance
        /\ \A a \in Range(hostData.accounts) :
              a.id \notin Ids(clientData.accounts)
                  => MapGet(merged.accounts, a.id).balance = a.balance
        /\ \A a \in Range(clientData.accounts) :
              a.id \notin Ids(hostData.accounts)
                  => MapGet(merged.accounts, a.id).balance = a.balance

(***************************************************************************)
(* LoginPage: texts, envelopes and what the single-code branch decodes     *)
(* A text is a sequence of fragments; the sender's wire string is the      *)
(* concatenation of NumChunks fragments the first of which starts with     *)
(* the FINT_V2: tag.                                                       *)
(***************************************************************************)
Frags == <<"FINT_V2:f1", "f2", "f3", "f4">>

WireV2 == SubSeq(Frags, 1, NumChunks)

SessionId == "s1"

\* ProfilePage.tsx:541-546: FINT_M_V1:{sessionId}:{i + 1}:{totalChunks}:{data}
Envelope(i) ==
    [multi |-> TRUE, parts |-> 5, sessionId |-> SessionId, index |-> i,
     total |-> NumChunks, data |-> <<Frags[i]>>]

\* The envelopes of another broadcast session, with fragments of its own
OtherSessionId == "s2"

OtherFrags == <<"g1", "g2", "g3", "g4">>

OtherEnvelope(i) ==
    [multi |-> TRUE, parts |-> 5, sessionId |-> OtherSessionId, index |-> i,
     total |-> NumChunks, data |-> <<OtherFrags[i]>>]

\* An envelope of the session whose index lies beyond its total
StrayEnvelope ==
    [multi |-> TRUE, parts |-> 5, sessionId |-> SessionId,
     index |-> NumChunks + 1, total |-> NumChunks, data |-> <<"zz">>]

\* A FINT_M_V1 frame with fewer than five colon-separated parts
ShortEnvelope ==
    [multi |-> TRUE, parts |-> 4, sessionId |-> SessionId, index |-> 1,
     total |-> 0, data |-> <<>>]

SingleFrame(text) ==
    [multi |-> FALSE, parts |-> 0, sessionId |-> "", index |-> 0, total |-> 0,
     data |-> text]

\* trimmedText.startsWith(tag)
TagOf(tok) ==
    IF tok \in {"FINT_V2:f1", "FINT_V2:bad"} THEN "FINT_V2:"
    ELSE IF tok = "FINT_C_V1:ok" THEN "FINT_C_V1:"
    ELSE "none"

StartsWith(text, tag) == text # <<>> /\ TagOf(text[1]) = tag

\* The payload the sending device put into the code (ProfilePage.tsx:509-521)
QrSender ==
    [user |-> Obj("u1"),
     financeData |->
        [transactions |-> <<>>,
         accounts |-> <<[id |-> Str("a1"), name |-> Str("Brokerage"),
                         category |-> Str("Equities"), institution |-> Undef,
                         balance |-> Num(300),
                         holdings |-> [def |-> TRUE,
                             items |-> <<[id |-> Str("h1"), name |-> Str("Apple"),
                                          ticker |-> Str("AAPL"),
                                          quantity |-> Num(2),
                                          value |-> Num(300)]>>]]>>,
         transactionCategories |-> Obj("categories"),
         lastUpdated |-> Str("2024-01-03"),
         conversationHistory |-> <<>>],
     apiKey |-> Str("key")]

\* A payload as processPayload sees it: null, or an object of which user,
\* financeData and apiKey may be missing.
NullPayload ==
    [def |-> FALSE, user |-> Undef, hasFinanceData |-> FALSE,
     financeData |-> <<>>, hasApiKey |-> FALSE, apiKey |-> Undef]

decodeHoldingLogin(h) ==
    [id |-> At(h.cells, 0), name |-> At(h.cells, 1),
     ticker |-> OrElse(At(h.cells, 2), Undef),
     quantity |-> At(h.cells, 3), value |-> At(h.cells, 4)]

decodeAccountLogin(a) ==
    LET holdings == MapSeq(decodeHoldingLogin, a.slot.rows)
    IN [id |-> At(a.cells, 0), name |-> At(a.cells, 1),
        category |-> At(a.cells, 2),
        institution |-> OrElse(At(a.cells, 3), Undef),
        balance |-> At(a.cells, 4),
        holdings |-> IF Len(holdings) > 0
                     THEN [def |-> TRUE, items |-> holdings]
                     ELSE NoHoldings]

\* LoginPage.tsx:12-58, the page's own fromV2Format
fromV2FormatLogin(c) ==
    IF fromV2Throws(c) THEN NullPayload
    ELSE [def |-> TRUE,
          user |-> c.u,
          hasFinanceData |-> TRUE,
          financeData |->
             [transactions |-> MapSeq(decodeTransaction, c.d.t.rows),
              accounts |-> MapSeq(decodeAccountLogin, c.d.a.rows),
              transactionCategories |-> c.d.tc,
              lastUpdated |-> c.d.lu,
              conversationHistory |-> <<>>],
          hasApiKey |-> TRUE,
          apiKey |-> c.k]

\* The object a legacy or plain JSON code carries
JsonPayload ==
    [def |-> TRUE, user |-> Obj("u2"), hasFinanceData |-> TRUE,
     financeData |-> [transactions |-> <<>>, accounts |-> <<>>,
                      transactionCategories |-> Obj("categories"),
                      lastUpdated |-> Str("2023-12-31"),
                      conversationHistory |-> <<>>],
     hasApiKey |-> TRUE, apiKey |-> Str("key2")]

\* LoginPage.tsx:157-178: what the three branches of the single-code
\* handling leave in payload. atob, inflate and JSON.parse throw on every
\* text but a complete one, and the catch leaves payload null.
ParseSingle(text) ==
    IF StartsWith(text, "FINT_V2:")
    THEN IF text = WireV2
         THEN fromV2FormatLogin(JsonRoundTrip(toV2FormatOld(QrSender)))
         ELSE NullPayload
    ELSE IF StartsWith(text, "FINT_C_V1:")
    THEN IF text = <<"FINT_C_V1:ok">> THEN JsonPayload ELSE NullPayload
    ELSE IF text = <<"{user,financeData,apiKey}">> THEN JsonPayload
    ELSE IF text = <<"{user,financeData}">>
         THEN [JsonPayload EXCEPT !.hasApiKey = FALSE, !.apiKey = Undef]
    ELSE NullPayload

\* Texts of single codes the camera may show
SingleTexts ==
    {<<"FINT_V9:zzz">>, <<"{user,financeData,apiKey}">>, <<"{user,financeData}">>,
     <<"FINT_C_V1:ok">>, <<"FINT_V2:bad">>}

Frames ==
    {Envelope(i) : i \in 1..NumChunks} \cup {ShortEnvelope, StrayEnvelope}
    \cup {OtherEnvelope(i) : i \in 1..NumChunks}
    \cup {SingleFrame(t) : t \in SingleTexts}

InitialData == [transactions |-> <<>>, accounts |-> <<>>,
                transactionCategories |-> DefaultCategories,
                lastUpdated |-> Str("boot"), conversationHistory |-> <<>>]

(***************************************************************************)
(* LoginPage: the component as a record and its handlers as functions      *)
(***************************************************************************)
NoProgress == [def |-> FALSE, sessionId |-> "", total |-> 0, collected |-> 0,
               chunks |-> <<>>]

NoScanner == [st |-> "none", closure |-> NoProgress]

LS ==
    [lmode |-> lmode, scanError |-> scanError, scanProgress |-> scanProgress,
     progChanged |-> progChanged, committedMode |-> committedMode,
     committedNull |-> committedNull,
     scanners |-> scanners, scannerRef |-> scannerRef, timers |-> timers,
     scanTimeoutRef |-> scanTimeoutRef, conts |-> conts, authUser |-> authUser,
     financeState |-> financeState, storedApiKey |-> storedApiKey,
     mounted |-> mounted, navigated |-> navigated, lastSingle |-> lastSingle,
     processed |-> processed, delivered |-> delivered, disturbed |-> disturbed,
     preScan |-> preScan, lastOutcome |-> lastOutcome,
     replaced |-> replaced]

SetLS(r) ==
    /\ lmode' = r.lmode /\ scanError' = r.scanError
    /\ scanProgress' = r.scanProgress /\ progChanged' = r.progChanged
    /\ committedMode' = r.committedMode /\ committedNull' = r.committedNull
    /\ scanners' = r.scanners
    /\ scannerRef' = r.scannerRef /\ timers' = r.timers
    /\ scanTimeoutRef' = r.scanTimeoutRef /\ conts' = r.conts
    /\ authUser' = r.authUser /\ financeState' = r.financeState
    /\ storedApiKey' = r.storedApiKey /\ mounted' = r.mounted
    /\ navigated' = r.navigated /\ lastSingle' = r.lastSingle
    /\ processed' = r.processed /\ delivered' = r.delivered
    /\ disturbed' = r.disturbed /\ preScan' = r.preScan
    /\ lastOutcome' = r.lastOutcome
    /\ replaced' = r.replaced

\* setScanProgress(p): the state holds another object than the committed
\* render unless both are null.
setScanProgress(r, p) ==
    [r EXCEPT !.scanProgress = p,
              !.progChanged = IF p.def THEN TRUE ELSE ~r.committedNull]

\* if (scanTimeoutRef.current) clearTimeout(scanTimeoutRef.current)
clearScanTimeout(r) == [r EXCEPT !.timers = @ \ {r.scanTimeoutRef}]

\* LoginPage.tsx:82-89
resetScanState(r) ==
    [setScanProgress(clearScanTimeout(r), NoProgress)
        EXCEPT !.scanError = "none", !.scanTimeoutRef = 0]

\* scannerRef.current?.isScanning
IsScanning(r) == r.scannerRef # 0 /\ r.scanners[r.scannerRef].st = "scanning"

\* scannerRef.current.stop(): the scanner stops delivering, the promise
\* resolves when the camera is closed.
stopScanner(r) == [r EXCEPT !.scanners[r.scannerRef].st = "stopping"]

\* processPayload without its test of the payload
processPayloadUnchecked(r, p) ==
    [r EXCEPT !.processed = @ + 1, !.authUser = p.user,
              !.financeState = p.financeData,
              !.storedApiKey = IF ~Falsy(p.apiKey) THEN p.apiKey ELSE @,
              !.navigated = TRUE, !.lastOutcome = "login"]

\* LoginPage.tsx:91-104
processPayload(r, p) ==
    LET counted == [r EXCEPT !.processed = @ + 1]
    IN IF p.def /\ ~Falsy(p.user) /\ p.hasFinanceData /\ p.hasApiKey
       THEN [counted EXCEPT
                !.authUser = p.user,                        \* login(payload.user)
                !.financeState = p.financeData,             \* setData(...)
                !.storedApiKey = IF ~Falsy(p.apiKey) THEN p.apiKey ELSE @,
                !.navigated = TRUE,
                !.lastOutcome = "login"]
       ELSE [counted EXCEPT !.scanError = "parse", !.lastOutcome = "error"]

\* LoginPage.tsx:157-180, after the scanner was stopped
finishSingle(r, text) ==
    processPayload([r EXCEPT !.lastSingle = text,
                             !.preScan = <<r.authUser, r.financeState,
                                           r.storedApiKey>>],
                   ParseSingle(text))

\* LoginPage.tsx:154-180
singleCode(r, text) ==
    IF IsScanning(r)
    THEN [stopScanner(r) EXCEPT
            !.conts = Append(@, [kind |-> "single", text |-> text,
                                 chunks |-> <<>>, total |-> 0,
                                 scanner |-> r.scannerRef])]
    ELSE finishSingle(r, text)

RECURSIVE Reassemble(_, _, _)
\* for (let i = 1; i <= total; i++) reassembledData += newChunks[i]
Reassemble(chunks, i, total) ==
    IF i > total THEN <<>>
    ELSE (IF i \in DOMAIN chunks THEN chunks[i] ELSE <<"undefined">>)
         \o Reassemble(chunks, i + 1, total)

\* LoginPage.tsx:137-143, after the scanner was stopped; the recursive call
\* clears the timeout again and takes the single-code branch.
finishMulti(r, chunks, total) ==
    singleCode(clearScanTimeout(resetScanState(r)), Reassemble(chunks, 1, total))

FreshTimer(r) ==
    CHOOSE t \in 1..3 : t \notin r.timers \cup {r.scanTimeoutRef}
                        /\ \A u \in 1..3 : u \notin r.timers \cup {r.scanTimeoutRef}
                                            => t <= u

\* LoginPage.tsx:147-150
armScanTimeout(r) ==
    LET t == FreshTimer(r)
    IN [r EXCEPT !.timers = @ \cup {t}, !.scanTimeoutRef = t]

\* !currentProgress.chunks[index]
ChunkMissing(chunks, index) == index \notin DOMAIN chunks \/ chunks[index] = <<>>

PutChunk(chunks, index, data) ==
    [i \in DOMAIN chunks \cup {index} |-> IF i = index THEN data ELSE chunks[i]]

\* The envelope f is well formed and the callback holds a collection of
\* another session (LoginPage.tsx:114, 122)
OtherSession(cp, f) ==
    f.multi /\ f.parts = 5 /\ cp.def /\ cp.sessionId # f.sessionId

\* currentProgress with the test of the session id left out
currentProgressAnySession(cp, f) ==
    IF ~cp.def
    THEN [def |-> TRUE, sessionId |-> f.sessionId, total |-> f.total,
          collected |-> 0, chunks |-> <<>>]
    ELSE cp

\* LoginPage.tsx:121-124
currentProgressOf(cp, f) ==
    IF ~cp.def \/ cp.sessionId # f.sessionId
    THEN [def |-> TRUE, sessionId |-> f.sessionId, total |-> f.total,
          collected |-> 0, chunks |-> <<>>]
    ELSE cp

\* LoginPage.tsx:112-152: f is the envelope, cp the scanProgress the
\* callback closed over.
multiPart(r, cp, f) ==
    IF f.parts < 5 THEN r
    ELSE
      LET currentProgress == currentProgressOf(cp, f)
      IN IF ChunkMissing(currentProgress.chunks, f.index)
         THEN LET newChunks == PutChunk(currentProgress.chunks, f.index, f.data)
                  collected == Cardinality(DOMAIN newChunks)
                  r1 == setScanProgress(r,
                          [currentProgress EXCEPT !.chunks = newChunks,
                                                  !.collected = collected])
              IN IF collected = f.total
                 THEN IF IsScanning(r1)
                      THEN [stopScanner(r1) EXCEPT
                              !.conts = Append(@, [kind |-> "multi", text |-> <<>>,
                                                   chunks |-> newChunks,
                                                   total |-> f.total,
                                                   scanner |-> r1.scannerRef])]
                      ELSE finishMulti(r1, newChunks, f.total)
                 ELSE armScanTimeout(r1)
         ELSE armScanTimeout(r)

\* LoginPage.tsx:106-181
onScanSuccess(r, cp, f) ==
    LET r0 == clearScanTimeout(r)
    IN IF f.multi THEN multiPart(r0, cp, f) ELSE singleCode(r0, f.data)

\* The callback continues after await scannerRef.current.stop()
resume(r, c) ==
    IF c.kind = "multi" THEN finishMulti(r, c.chunks, c.total)
    ELSE finishSingle(r, c.text)

\* LoginPage.tsx:199-206, the cleanup of the scan effect
effectCleanup(r) ==
    clearScanTimeout(IF IsScanning(r) THEN stopScanner(r) ELSE r)

FreeScanner(r) ==
    CHOOSE i \in 1..MaxScanners :
        /\ r.scanners[i].st = "none"
        /\ \A j \in 1..MaxScanners : r.scanners[j].st = "none" => i <= j

\* LoginPage.tsx:183-193; the callback handed to scanner.start closes over
\* the scanProgress of the render that made it. A scanner object that was
\* stopped and is referenced no more is dropped.
startScanner(r, renderProgress) ==
    LET r1 == resetScanState(r)
        old == r1.scannerRef
        r2 == IF old # 0 /\ r1.scanners[old].st \in {"stopped", "failed"}
              THEN [r1 EXCEPT !.scanners[old] = NoScanner] ELSE r1
        id == FreeScanner(r2)
    IN [r2 EXCEPT !.scanners[id] = [st |-> "starting", closure |-> renderProgress],
                  !.scannerRef = id]

\* The effect's dependencies [mode, startScanner] changed
NeedEffect ==
    mounted /\ (progChanged \/ lmode # committedMode)

\* React renders and runs unmounts and effects before the next camera
\* frame, timer or click is handled.
Urgent == mounted /\ (navigated \/ NeedEffect)

(***************************************************************************)
(* LoginPage: actions                                                      *)
(***************************************************************************)
InitLogin ==
    /\ lmode = "create" /\ scanError = "none" /\ scanProgress = NoProgress
    /\ progChanged = FALSE /\ committedMode = "create" /\ committedNull = TRUE
    /\ scanners = [i \in 1..MaxScanners |-> NoScanner]
    /\ scannerRef = 0 /\ timers = {} /\ scanTimeoutRef = 0 /\ conts = <<>>
    /\ authUser = Undef /\ financeState = InitialData /\ storedApiKey = Null
    /\ mounted = TRUE /\ navigated = FALSE
    /\ lastSingle = <<>> /\ processed = 0 /\ delivered = {} /\ disturbed = FALSE
    /\ preScan = <<Undef, InitialData, Null>> /\ lastOutcome = "none"
    /\ replaced = FALSE

\* onClick={() => setMode('scan')} and onClick={() => setMode('create')}
SetMode(m) ==
    /\ mounted /\ ~Urgent /\ lmode # m
    /\ SetLS([LS EXCEPT !.lmode = m,
                        !.delivered = {},
                        !.disturbed = (m # "scan")])

\* A render whose effect dependencies changed: the cleanup of the previous
\* effect runs, then the effect (LoginPage.tsx:195-207).
Commit ==
    /\ NeedEffect /\ ~navigated
    /\ lmode = "scan" => \E i \in 1..MaxScanners :
                            effectCleanup(LS).scanners[i].st = "none"
                            \/ (i = scannerRef /\ effectCleanup(LS).scanners[i].st
                                                    \in {"stopped", "failed"})
    /\ LET r1 == [effectCleanup(LS) EXCEPT
                     !.committedMode = lmode,
                     !.committedNull = ~scanProgress.def,
                     !.progChanged = FALSE]
       IN SetLS(IF lmode = "scan" THEN startScanner(r1, scanProgress) ELSE r1)

\* The page is left after navigate('/dashboard'): the effect's cleanup runs.
Unmount ==
    /\ mounted /\ navigated
    /\ SetLS([effectCleanup(LS) EXCEPT !.mounted = FALSE])

\* scanner.start resolves: the camera is running
ScannerStarted(i) ==
    /\ ~Urgent /\ scanners[i].st = "starting"
    /\ SetLS([LS EXCEPT !.scanners[i].st = "scanning"])

\* scanner.start rejects (LoginPage.tsx:190-192)
CameraError(i) ==
    /\ ~Urgent /\ scanners[i].st = "starting"
    /\ SetLS([LS EXCEPT !.scanners[i].st = "failed",
                        !.scanError = "camera", !.disturbed = TRUE])

\* The promise of scanner.stop() resolves and the call that awaited it
\* goes on.
ScannerStopped(i) ==
    /\ scanners[i].st = "stopping"
    /\ LET r1 == [LS EXCEPT !.scanners[i] =
                      IF i = scannerRef THEN [@ EXCEPT !.st = "stopped"]
                      ELSE NoScanner]
       IN IF conts # <<>> /\ conts[1].scanner = i
          THEN SetLS(resume([r1 EXCEPT !.conts = Tail(@)], conts[1]))
          ELSE SetLS(r1)

\* A running scanner decodes a frame and calls the onScanSuccess it was
\* started with.
Frame(i, f) ==
    /\ ~Urgent /\ scanners[i].st = "scanning" /\ conts = <<>>
    /\ processed < MaxProcessed
    /\ LET r1 == onScanSuccess(LS, scanners[i].closure, f)
       IN SetLS([r1 EXCEPT
                   !.delivered = IF f.multi /\ f.parts = 5
                                    /\ f.sessionId = SessionId
                                    /\ f.index \in 1..f.total
                                 THEN @ \cup {f.index} ELSE @,
                   !.disturbed = @ \/ ~f.multi \/ f.parts < 5
                                   \/ f.sessionId # SessionId
                                   \/ f.index \notin 1..f.total,
                   !.replaced = OtherSession(scanners[i].closure, f)])

\* LoginPage.tsx:147-150, the 5 second timeout fires
ScanTimeout(t) ==
    /\ ~Urgent /\ t \in timers
    /\ SetLS([resetScanState([LS EXCEPT !.timers = @ \ {t},
                                        !.scanError = "timeout"])
                EXCEPT !.disturbed = TRUE])

NextLogin ==
    \/ \E m \in {"create", "scan"} : SetMode(m)
    \/ Commit
    \/ Unmount
    \/ \E i \in 1..MaxScanners : ScannerStarted(i)
    \/ \E i \in 1..MaxScanners : CameraError(i)
    \/ \E i \in 1..MaxScanners : ScannerStopped(i)
    \/ \E i \in 1..MaxScanners, f \in Frames : Frame(i, f)
    \/ \E t \in 1..3 : ScanTimeout(t)

IdleLogin ==
    /\ InitLogin

(***************************************************************************)
(* Two devices on ProfilePage, joined by the peer broker                   *)
(* A handler sees the mode and the currentSyncPayload of the render that   *)
(* created it: cl = [mode, data, key].                                     *)
(***************************************************************************)
Dev == {"A", "B"}

Other(d) == IF d = "A" THEN "B" ELSE "A"

\* mode and currentSyncPayload (ProfilePage.tsx:79-85) of the present render
Closure(d, m) == [mode |-> m, data |-> pdata[d], key |-> pkey[d]]

NoClosure == [mode |-> "select", data |-> EmptyFinance, key |-> Null]

NoPeer == [alive |-> FALSE, open |-> FALSE, cl |-> NoClosure]

NoScan == [on |-> FALSE, cl |-> NoClosure]

NoConn == [st |-> "none", dialer |-> "A", dcl |-> NoClosure, acl |-> NoClosure,
           opened |-> {}, closedBy |-> {}]

NoCommit == [def |-> FALSE, data |-> EmptyFinance]

NoHostRx == [kind |-> "none", before |-> <<EmptyFinance, Null>>,
             after |-> <<EmptyFinance, Null>>, replied |-> FALSE]

\* What a device holds before the session
DeviceData(d) ==
    {FinanceOf(d, <<>>, <<>>, <<>>),
     FinanceOf(d,
               <<[id |-> IF d = "A" THEN "t1" ELSE "t2",
                  date |-> IF d = "A" THEN 1 ELSE 2, description |-> d]>>,
               <<OtherAccount(IF d = "A" THEN "host" ELSE "client")>>,
               <<[id |-> IF d = "A" THEN "c1" ELSE "c2", date |-> 1,
                  description |-> d]>>)}

\* Device B has a Gemini API key stored, device A has none
DeviceKey(d) == IF d = "B" THEN Str("B") ELSE Null

\* conn.send(x): the message as the other side's data handler gets it
Message(data, key) == [kind |-> "payload", data |-> data, apiKey |-> key]

\* A transaction record with an id and a date only
PartialTx == [id |-> "t3", date |-> 1, description |-> "undefined"]

\* Messages of a remote peer that are no well-formed payload: an object
\* without the three arrays, and one whose transactions hold a record that
\* lacks required fields.
MalformedMessages ==
    {[kind |-> "noArrays", data |-> EmptyFinance, apiKey |-> Undef],
     [kind |-> "partialRecords",
      data |-> FinanceOf("remote", <<PartialTx>>, <<>>, <<>>),
      apiKey |-> Undef]}

\* { transactions: undefined, accounts: undefined, ... } in the provider
UndefinedSnapshot == FinanceOf("undefined", <<>>, <<>>, <<>>)

\* The listeners setupConnectionListeners put on d's end of the connection
ListenerOf(c, d) == IF d = c.dialer THEN c.dcl ELSE c.acl

\* d's end of the connection is open: its open event came and neither d
\* closed the connection nor heard of its closing
EndOpen(d) == conn.st = "accepted" /\ d \in conn.opened /\ d \notin conn.closedBy

\* conn.send(m) on d's end
Send(box, d, m) ==
    IF Other(d) \in conn.closedBy THEN box
    ELSE [box EXCEPT ![Other(d)] = Append(@, m)]

InitPeer ==
    /\ pmode = [d \in Dev |-> "select"]
    /\ pdata \in [Dev -> UNION {DeviceData(d) : d \in Dev}]
    /\ \A d \in Dev : pdata[d] \in DeviceData(d)
    /\ pkey = [d \in Dev |-> DeviceKey(d)]
    /\ imports = [d \in Dev |-> <<>>]
    /\ peer = [d \in Dev |-> NoPeer]
    /\ peerId = [d \in Dev |-> FALSE]
    /\ hasCleanup = [d \in Dev |-> FALSE]
    /\ scanner = [d \in Dev |-> NoScan]
    /\ conn = NoConn
    /\ inbox = [d \in Dev |-> <<>>]
    /\ closeTimer = [d \in Dev |-> FALSE]
    /\ sessions = 0 /\ merges = 0 /\ committed = NoCommit /\ applied = {}
    /\ hostRx = NoHostRx /\ foreign = FALSE

\* The buttons of the Device Sync card (ProfilePage.tsx:262, 266, 361) and
\* the effects that follow the render: the cleanup of the peer effect
\* (144-156) if its last run returned one, the peer effect (115-143) and
\* the scanner effect (171-189).
PSetMode(d, m) ==
    /\ pmode[d] # m /\ (pmode[d] = "select" \/ m = "select")
    /\ LET destroyed == hasCleanup[d] /\ peer[d].alive
           alive == peer[d].alive /\ ~destroyed
           loads == m # "select" /\ ~alive
       IN /\ loads => Len(imports[d]) < MaxImports
          /\ pmode' = [pmode EXCEPT ![d] = m]
          /\ peer' = IF destroyed THEN [peer EXCEPT ![d] = NoPeer] ELSE peer
          /\ conn' = IF destroyed /\ conn.st \in {"connecting", "accepted"}
                     THEN [conn EXCEPT !.st = "closed", !.closedBy = Dev]
                     ELSE conn
          /\ imports' = IF loads
                        THEN [imports EXCEPT ![d] = Append(@, Closure(d, m))]
                        ELSE imports
          /\ hasCleanup' = [hasCleanup EXCEPT ![d] = loads]
          /\ scanner' = IF m = "scan" /\ peerId[d]
                        THEN [scanner EXCEPT ![d] = [on |-> TRUE, cl |-> Closure(d, m)]]
                        ELSE scanner
    /\ UNCHANGED <<pdata, pkey, peerId, inbox, closeTimer, sessions, merges,
                   committed, applied, hostRx, foreign>>

\* import('peerjs').then(...), ProfilePage.tsx:118-142
ImportResolves(d) ==
    /\ imports[d] # <<>>
    /\ imports' = [imports EXCEPT ![d] = Tail(@)]
    /\ peer' = IF peer[d].alive THEN peer
               ELSE [peer EXCEPT ![d] = [alive |-> TRUE, open |-> FALSE,
                                         cl |-> Head(imports[d])]]
    /\ UNCHANGED <<pmode, pdata, pkey, peerId, hasCleanup, scanner, conn, inbox,
                   closeTimer, sessions, merges, committed, applied, hostRx,
                   foreign>>

\* peer.on('open'), ProfilePage.tsx:125-128, and the scanner effect that
\* follows setPeerId (171-189)
PeerOpen(d) ==
    /\ peer[d].alive /\ ~peer[d].open
    /\ peer' = [peer EXCEPT ![d].open = TRUE]
    /\ peerId' = [peerId EXCEPT ![d] = TRUE]
    /\ scanner' = IF pmode[d] = "scan"
                  THEN [scanner EXCEPT ![d] = [on |-> TRUE,
                                               cl |-> Closure(d, pmode[d])]]
                  ELSE scanner
    /\ UNCHANGED <<pmode, pdata, pkey, imports, hasCleanup, conn, inbox,
                   closeTimer, sessions, merges, committed, applied, hostRx,
                   foreign>>

\* The code with the peer id is on the other device's screen
\* (ProfilePage.tsx:160-168, 280)
CodeShown(o) == pmode[o] = "host" /\ peerId[o] /\ peer[o].alive /\ peer[o].open

\* The scanner's callback, ProfilePage.tsx:177-186
ScanCode(d) ==
    /\ scanner[d].on /\ CodeShown(Other(d))
    /\ sessions < MaxSessions
    /\ scanner' = [scanner EXCEPT ![d].on = FALSE]
    /\ IF peer[d].alive /\ peer[d].open
       THEN /\ conn' = [st |-> "connecting", dialer |-> d, dcl |-> scanner[d].cl,
                        acl |-> NoClosure, opened |-> {}, closedBy |-> {}]
            /\ sessions' = sessions + 1
            /\ inbox' = [e \in Dev |-> <<>>]
            /\ merges' = 0 /\ committed' = NoCommit /\ applied' = {}
            /\ hostRx' = NoHostRx /\ foreign' = FALSE
       ELSE UNCHANGED <<conn, sessions, inbox, merges, committed, applied,
                        hostRx, foreign>>
    /\ UNCHANGED <<pmode, pdata, pkey, imports, peer, peerId, hasCleanup,
                   closeTimer>>

\* peer.on('connection'), ProfilePage.tsx:130-135
Incoming(o) ==
    /\ conn.st = "connecting" /\ o = Other(conn.dialer) /\ peer[o].alive
    /\ conn' = [conn EXCEPT !.st = "accepted", !.acl = peer[o].cl]
    /\ UNCHANGED <<pmode, pdata, pkey, imports, peer, peerId, hasCleanup,
                   scanner, inbox, closeTimer, sessions, merges, committed,
                   applied, hostRx, foreign>>

\* conn.on('open'), ProfilePage.tsx:192-200
ConnOpen(d) ==
    /\ conn.st = "accepted" /\ d \notin conn.opened /\ d \notin conn.closedBy
    /\ conn' = [conn EXCEPT !.opened = @ \cup {d}]
    /\ LET cl == ListenerOf(conn, d)
       IN inbox' = IF cl.mode = "scan"
                   THEN Send(inbox, d, Message(cl.data, cl.key))
                   ELSE inbox
    /\ UNCHANGED <<pmode, pdata, pkey, imports, peer, peerId, hasCleanup,
                   scanner, closeTimer, sessions, merges, committed, applied,
                   hostRx, foreign>>

\* The remote end of the open connection sends a message that is no
\* well-formed payload, once in a session.
RemoteSendsMalformed(d, m) ==
    /\ EndOpen(d) /\ d = Other(conn.dialer) /\ ~foreign
    /\ inbox' = [inbox EXCEPT ![d] = Append(@, m)]
    /\ foreign' = TRUE
    /\ UNCHANGED <<pmode, pdata, pkey, imports, peer, peerId, hasCleanup,
                   scanner, conn, closeTimer, sessions, merges, committed,
                   applied, hostRx>>

\* conn.on('data') where mode === 'host', ProfilePage.tsx:205-228.
\* mergeFinanceData throws when an array of the remote payload is missing;
\* the handler ends there.
HostReceives(d) ==
    /\ EndOpen(d) /\ inbox[d] # <<>>
    /\ ListenerOf(conn, d).mode = "host"
    /\ LET m == Head(inbox[d])
           hostPayload == ListenerOf(conn, d)
       IN IF m.kind = "noArrays"
          THEN /\ inbox' = [inbox EXCEPT ![d] = Tail(@)]
               /\ hostRx' = [kind |-> m.kind, before |-> <<pdata[d], pkey[d]>>,
                              after |-> <<pdata[d], pkey[d]>>, replied |-> FALSE]
               /\ UNCHANGED <<pdata, pkey, closeTimer, merges, committed>>
          ELSE LET finalFinanceData == mergeFinanceData(hostPayload.data, m.data)
                   finalApiKey == OrElse(hostPayload.key, m.apiKey)
               IN /\ pdata' = [pdata EXCEPT ![d] = finalFinanceData]
                  /\ pkey' = IF ~Falsy(finalApiKey) /\ Falsy(hostPayload.key)
                             THEN [pkey EXCEPT ![d] = finalApiKey] ELSE pkey
                  /\ inbox' = Send([inbox EXCEPT ![d] = Tail(@)], d,
                                    [kind |-> m.kind, data |-> finalFinanceData,
                                     apiKey |-> finalApiKey])
                  /\ closeTimer' = [closeTimer EXCEPT ![d] = TRUE]
                  /\ merges' = merges + 1
                  /\ committed' = [def |-> TRUE, data |-> finalFinanceData]
                  /\ hostRx' = [kind |-> m.kind, before |-> <<pdata[d], pkey[d]>>,
                                 after |-> <<pdata'[d], pkey'[d]>>,
                                 replied |-> TRUE]
    /\ UNCHANGED <<pmode, imports, peer, peerId, hasCleanup, scanner, conn,
                   sessions, applied, foreign>>

\* conn.on('data') where mode is not 'host', ProfilePage.tsx:229-248
ClientReceives(d) ==
    /\ EndOpen(d) /\ inbox[d] # <<>>
    /\ ListenerOf(conn, d).mode # "host"
    /\ LET m == Head(inbox[d])
       IN /\ pdata' = [pdata EXCEPT ![d] = IF m.kind = "noArrays"
                                           THEN UndefinedSnapshot ELSE m.data]
          /\ pkey' = IF ~Falsy(m.apiKey) THEN [pkey EXCEPT ![d] = m.apiKey] ELSE pkey
          /\ applied' = IF m.kind = "payload" THEN applied \cup {d} ELSE applied
    /\ inbox' = [inbox EXCEPT ![d] = <<>>]
    /\ conn' = [conn EXCEPT !.closedBy = @ \cup {d}]
    /\ UNCHANGED <<pmode, imports, peer, peerId, hasCleanup, scanner,
                   closeTimer, sessions, merges, committed, hostRx, foreign>>

\* conn.on('close'), ProfilePage.tsx:251-255: d learns that the other end
\* closed the connection; what was on its way to d and not yet handled may
\* or may not have arrived first.
RemoteClosed(d) ==
    /\ conn.st = "accepted" /\ Other(d) \in conn.closedBy /\ d \notin conn.closedBy
    /\ conn' = [conn EXCEPT !.closedBy = Dev, !.st = "closed"]
    /\ inbox' = [e \in Dev |-> <<>>]
    /\ UNCHANGED <<pmode, pdata, pkey, imports, peer, peerId, hasCleanup,
                   scanner, closeTimer, sessions, merges, committed, applied,
                   hostRx, foreign>>

\* setTimeout(() => conn.close(), 1000), ProfilePage.tsx:228
CloseTimerFires(d) ==
    /\ closeTimer[d]
    /\ closeTimer' = [closeTimer EXCEPT ![d] = FALSE]
    /\ conn' = IF conn.st = "accepted"
               THEN [conn EXCEPT !.closedBy = @ \cup {d}] ELSE conn
    /\ inbox' = [inbox EXCEPT ![d] = <<>>]
    /\ UNCHANGED <<pmode, pdata, pkey, imports, peer, peerId, hasCleanup,
                   scanner, sessions, merges, committed, applied, hostRx,
                   foreign>>

NextPeer ==
    \/ \E d \in Dev, m \in {"select", "host", "scan"} : PSetMode(d, m)
    \/ \E d \in Dev : ImportResolves(d)
    \/ \E d \in Dev : PeerOpen(d)
    \/ \E d \in Dev : ScanCode(d)
    \/ \E d \in Dev : Incoming(d)
    \/ \E d \in Dev : ConnOpen(d)
    \/ \E d \in Dev, m \in MalformedMessages : RemoteSendsMalformed(d, m)
    \/ \E d \in Dev : HostReceives(d)
    \/ \E d \in Dev : ClientReceives(d)
    \/ \E d \in Dev : RemoteClosed(d)
    \/ \E d \in Dev : CloseTimerFires(d)

IdlePeer ==
    /\ pmode = [d \in Dev |-> "select"]
    /\ pdata = [d \in Dev |-> EmptyFinance]
    /\ pkey = [d \in Dev |-> Null]
    /\ imports = [d \in Dev |-> <<>>]
    /\ peer = [d \in Dev |-> NoPeer]
    /\ peerId = [d \in Dev |-> FALSE]
    /\ hasCleanup = [d \in Dev |-> FALSE]
    /\ scanner = [d \in Dev |-> NoScan]
    /\ conn = NoConn
    /\ inbox = [d \in Dev |-> <<>>]
    /\ closeTimer = [d \in Dev |-> FALSE]
    /\ sessions = 0 /\ merges = 0 /\ committed = NoCommit /\ applied = {}
    /\ hostRx = NoHostRx /\ foreign = FALSE

(***************************************************************************)
(* One hosting device and the clients that scan its code                   *)
(* The Peer was created by the render that switched to 'host'; its         *)
(* connection listener and the handlers it installs see that render's      *)
(* currentSyncPayload for as long as the Peer lives.                       *)
(***************************************************************************)
Client == {"c1", "c2"}

NoHConn == [st |-> "none", listeners |-> FALSE, inbox |-> <<>>,
            reply |-> <<>>, timer |-> FALSE]

NoSync == [def |-> FALSE, keyBefore |-> Null, keyAfter |-> Null,
           clientKey |-> Null, replyKey |-> Null,
           dataBefore |-> EmptyFinance, remoteData |-> EmptyFinance,
           dataAfter |-> EmptyFinance, replyData |-> EmptyFinance]

\* currentSyncPayload of a scanning device, ProfilePage.tsx:79-85
ClientPayload(c) ==
    Message(FinanceOf(c,
                      <<[id |-> c, date |-> 1, description |-> c]>>,
                      <<>>, <<>>),
            IF c = "c1" THEN Str("c1") ELSE Null)

\* API Key Logic: Host's key takes priority (ProfilePage.tsx:212-213)
FinalApiKey(hostPayload, remotePayload) ==
    OrElse(hostPayload.key, remotePayload.apiKey)

InitHost ==
    /\ hdata \in DeviceData("A")
    /\ hkey \in {Null, Str("H")}
    /\ hcl = [mode |-> "host", data |-> hdata, key |-> hkey]
    /\ hconns = [c \in Client |-> NoHConn]
    /\ hmerged = {}
    /\ hsync = NoSync

\* handleSaveKey, ProfilePage.tsx:90-96, and saveApiKey, useAuth.tsx:138-149;
\* the page renders again, the Peer and its listeners stay
handleSaveKey(k) ==
    /\ hkey # Str(k)
    /\ hkey' = Str(k)
    /\ UNCHANGED <<hdata, hcl, hconns, hmerged, hsync>>

\* handleRemoveKey, ProfilePage.tsx:98-102
handleRemoveKey ==
    /\ hkey # Null
    /\ hkey' = Null
    /\ UNCHANGED <<hdata, hcl, hconns, hmerged, hsync>>

\* handleDeleteAllDataAndKey, ProfilePage.tsx:105-110: clearAllData
\* (useFinance.tsx:458-463) puts initialData in place and removeApiKey drops
\* the key; the page renders again, the Peer and its listeners stay
handleDeleteAllDataAndKey ==
    /\ hdata # EmptyFinance \/ hkey # Null
    /\ hdata' = EmptyFinance
    /\ hkey' = Null
    /\ UNCHANGED <<hcl, hconns, hmerged, hsync>>

\* peer.on('connection'), ProfilePage.tsx:130-135: every inbound connection
\* becomes connRef.current and gets the open, data and close listeners
HostIncoming(c) ==
    /\ hconns[c].st = "none"
    /\ hconns' = [hconns EXCEPT ![c].st = "accepted", ![c].listeners = TRUE]
    /\ UNCHANGED <<hdata, hkey, hcl, hmerged, hsync>>

\* The connection opens on both ends: the client's open handler sends its
\* payload, the host's sends nothing (ProfilePage.tsx:192-200)
HostConnOpen(c) ==
    /\ hconns[c].st = "accepted"
    /\ hconns' = [hconns EXCEPT ![c].st = "open",
                                ![c].inbox = <<ClientPayload(c)>>]
    /\ UNCHANGED <<hdata, hkey, hcl, hmerged, hsync>>

\* conn.on('data') on the host, ProfilePage.tsx:205-228
HostData(c) ==
    /\ hconns[c].st = "open" /\ hconns[c].listeners /\ hconns[c].inbox # <<>>
    /\ LET remotePayload == Head(hconns[c].inbox)
           hostPayload == hcl
           finalFinanceData == mergeFinanceData(hostPayload.data, remotePayload.data)
           finalApiKey == FinalApiKey(hostPayload, remotePayload)
       IN /\ hdata' = finalFinanceData
          /\ hkey' = IF ~Falsy(finalApiKey) /\ Falsy(hostPayload.key)
                     THEN finalApiKey ELSE hkey
          /\ hconns' = [hconns EXCEPT
                            ![c].inbox = Tail(@),
                            ![c].reply = <<Message(finalFinanceData, finalApiKey)>>,
                            ![c].timer = TRUE]
          /\ hmerged' = hmerged \cup {c}
          /\ hsync' = [def |-> TRUE, keyBefore |-> hkey, keyAfter |-> hkey',
                       clientKey |-> remotePayload.apiKey,
                       replyKey |-> finalApiKey,
                       dataBefore |-> hdata, remoteData |-> remotePayload.data,
                       dataAfter |-> finalFinanceData,
                       replyData |-> finalFinanceData]
    /\ UNCHANGED hcl

\* The client's data handler applies the reply and closes the connection
\* (ProfilePage.tsx:229-248); the host's close handler runs (251-255)
ClientCloses(c) ==
    /\ hconns[c].st = "open" /\ hconns[c].reply # <<>>
    /\ hconns' = [hconns EXCEPT ![c].st = "closed", ![c].reply = <<>>]
    /\ UNCHANGED <<hdata, hkey, hcl, hmerged, hsync>>

\* setTimeout(() => conn.close(), 1000), ProfilePage.tsx:228
HostCloseTimer(c) ==
    /\ hconns[c].timer
    /\ hconns' = [hconns EXCEPT ![c].timer = FALSE, ![c].st = "closed",
                                ![c].reply = <<>>]
    /\ UNCHANGED <<hdata, hkey, hcl, hmerged, hsync>>

NextHost ==
    \/ \E k \in {"H", "K"} : handleSaveKey(k)
    \/ handleRemoveKey
    \/ handleDeleteAllDataAndKey
    \/ \E c \in Client : HostIncoming(c)
    \/ \E c \in Client : HostConnOpen(c)
    \/ \E c \in Client : HostData(c)
    \/ \E c \in Client : ClientCloses(c)
    \/ \E c \in Client : HostCloseTimer(c)

IdleHost ==
    /\ hdata = EmptyFinance /\ hkey = Null
    /\ hcl = NoClosure
    /\ hconns = [c \in Client |-> NoHConn]
    /\ hmerged = {} /\ hsync = NoSync

(***************************************************************************)
(* The receiving device of a clone: AuthProvider, the keyed                *)
(* FinanceProvider of index.tsx and localStorage                           *)
(***************************************************************************)
UserIds == {"x", "r"}

NoUser == [def |-> FALSE, id |-> "", email |-> Undef]

UserOf(id, email) == [def |-> TRUE, id |-> id, email |-> email]

NoItem == [def |-> FALSE, data |-> EmptyFinance]

NoReceived == [def |-> FALSE, user |-> NoUser, data |-> EmptyFinance]

\* A finance snapshot with one transaction of its owner
SnapshotOf(owner) ==
    FinanceOf(owner, <<[id |-> owner, date |-> 1, description |-> owner]>>,
              <<>>, <<>>)

\* <FinanceProvider key={user ? user.email : 'logged_out'}>, index.tsx:19
ProviderKey(u) == IF u.def THEN u.email ELSE Str("logged_out")

\* initializer, useFinance.tsx:323-338; the stored arrays are always there
\* in what login and the persistence effect wrote
initializer(u, storage) ==
    IF ~u.def THEN EmptyFinance
    ELSE IF storage[u.id].def THEN storage[u.id].data ELSE EmptyFinance

\* The persistence effect, useFinance.tsx:356-368
persist(u, state, storage) ==
    IF ~u.def THEN storage
    ELSE [storage EXCEPT ![u.id] = [def |-> TRUE, data |-> state]]

\* The device before the link is opened: nobody signed in, or a user whose
\* snapshot the provider holds and has persisted
InitClone ==
    /\ cuser \in {NoUser} \cup {UserOf(i, e) : i \in UserIds,
                                              e \in {Undef, Str("x@mail")}}
    /\ cstate \in IF cuser.def THEN {EmptyFinance, SnapshotOf("local")}
                  ELSE {EmptyFinance}
    /\ cstorage = persist(cuser, cstate, [i \in UserIds |-> NoItem])
    /\ ckey = ProviderKey(cuser)
    /\ cdirty = FALSE
    /\ creceived = NoReceived
    /\ cphase = "waiting"

\* conn.on('data') with an accepted payload, SyncPage.tsx:73-78, and login,
\* useAuth.tsx:71-88: the snapshot is stored first, then setUser
CloneReceived(u, data) ==
    /\ cphase = "waiting"
    /\ cstorage' = [cstorage EXCEPT ![u.id] = [def |-> TRUE, data |-> data]]
    /\ cuser' = u
    /\ cdirty' = TRUE
    /\ creceived' = [def |-> TRUE, user |-> u, data |-> data]
    /\ cphase' = "loggedIn"
    /\ UNCHANGED <<cstate, ckey>>

\* The render that follows setUser: AppContainer (index.tsx:13-23) mounts a
\* new FinanceProvider if the key changed and keeps the mounted one if not;
\* then the persistence effect runs, as user is among its dependencies.
RenderAfterLogin ==
    /\ cdirty
    /\ LET key == ProviderKey(cuser)
           state == IF key # ckey THEN initializer(cuser, cstorage) ELSE cstate
       IN /\ ckey' = key
          /\ cstate' = state
          /\ cstorage' = persist(cuser, state, cstorage)
    /\ cdirty' = FALSE
    /\ cphase' = "rendered"
    /\ UNCHANGED <<cuser, creceived>>

\* logout, useAuth.tsx:90-94, and the render that follows it
Logout ==
    /\ cphase = "rendered" /\ cuser.def
    /\ cuser' = NoUser
    /\ ckey' = ProviderKey(NoUser)
    /\ cstate' = IF ckey # ProviderKey(NoUser) THEN EmptyFinance ELSE cstate
    /\ cphase' = "loggedOut"
    /\ UNCHANGED <<cstorage, cdirty, creceived>>

NextClone ==
    \/ \E i \in UserIds, e \in {Undef, Str("x@mail"), Str("r@mail")},
          owner \in {"remote", "other"} :
             CloneReceived(UserOf(i, e), SnapshotOf(owner))
    \/ RenderAfterLogin
    \/ Logout

IdleClone ==
    /\ cuser = NoUser /\ cstate = EmptyFinance
    /\ cstorage = [i \in UserIds |-> NoItem]
    /\ ckey = ProviderKey(NoUser) /\ cdirty = FALSE
    /\ creceived = NoReceived /\ cphase = "waiting"

(***************************************************************************)
(* ProfilePage: the animated multi-part code of New Device Setup           *)
(* A string is a sequence of one-character strings, so that substring,     *)
(* split, join and length count characters as the code does.               *)
(***************************************************************************)
Colon == ":"

\* `FINT_V2:${base64String}` (ProfilePage.tsx:534): the tag, then base64 text
WirePrefix == <<"F", "I", "N", "T", "_", "V", "2", ":">>

\* Characters of the base64 alphabet, all different so that their order shows
Base64Text == <<"a", "b", "c", "d", "e", "f", "g", "h", "i", "j", "k", "l">>

Wires == {WirePrefix \o SubSeq(Base64Text, 1, n) : n \in 0..MaxBody}

\* Date.now().toString(36): digits and lower-case letters
QrSessionIds == {<<"s", "1">>, <<"s", "2">>}

DigitChars == <<"0", "1", "2", "3", "4", "5", "6", "7", "8", "9">>

RECURSIVE DecStr(_)
\* `${n}` of a non-negative integer
DecStr(n) ==
    IF n < 10 THEN <<DigitChars[n + 1]>>
    ELSE DecStr(n \div 10) \o <<DigitChars[(n % 10) + 1]>>

\* `FINT_M_V1:${sessionId}:${i + 1}:${totalChunks}:${chunkData}`
EnvelopeTag == <<"F", "I", "N", "T", "_", "M", "_", "V", "1", ":">>

chunkString(sessionId, index, total, data) ==
    EnvelopeTag \o sessionId \o <<Colon>> \o DecStr(index) \o <<Colon>>
    \o DecStr(total) \o <<Colon>> \o data

\* Math.ceil(fullPayloadString.length / QR_CHUNK_SIZE)
totalChunks(w) == (Len(w) + ChunkSize - 1) \div ChunkSize

\* substring whose end runs one character into the next chunk
chunkDataOverlap(w, i) ==
    SubSeq(w, i * ChunkSize + 1,
           IF (i + 1) * ChunkSize + 1 < Len(w) THEN (i + 1) * ChunkSize + 1
           ELSE Len(w))

\* fullPayloadString.substring(i * QR_CHUNK_SIZE, (i + 1) * QR_CHUNK_SIZE)
chunkData(w, i) ==
    SubSeq(w, i * ChunkSize + 1,
           IF (i + 1) * ChunkSize < Len(w) THEN (i + 1) * ChunkSize ELSE Len(w))

\* What the loop of ProfilePage.tsx:540-546 interpolates into each string
chunkFields(w, sessionId) ==
    [k \in 1..totalChunks(w) |->
        [sessionId |-> sessionId, index |-> k, total |-> totalChunks(w),
         data |-> chunkData(w, k - 1)]]

chunks(w, sessionId) ==
    [k \in 1..totalChunks(w) |->
        chunkString(sessionId, k, totalChunks(w), chunkData(w, k - 1))]

\* --- the receiving side's reading of such a string (LoginPage.tsx:108-119)
IsSpace(c) == c = " "

RECURSIVE TrimStart(_)
TrimStart(s) == IF s # <<>> /\ IsSpace(s[1]) THEN TrimStart(Tail(s)) ELSE s

RECURSIVE TrimEnd(_)
TrimEnd(s) ==
    IF s # <<>> /\ IsSpace(s[Len(s)]) THEN TrimEnd(SubSeq(s, 1, Len(s) - 1))
    ELSE s

\* decodedText.trim()
Trim(s) == TrimEnd(TrimStart(s))

\* trimmedText.startsWith(p)
startsWith(s, p) == Len(s) >= Len(p) /\ SubSeq(s, 1, Len(p)) = p

RECURSIVE Split(_)
\* s.split(':')
Split(s) ==
    IF \A i \in 1..Len(s) : s[i] # Colon THEN <<s>>
    ELSE LET i == CHOOSE j \in 1..Len(s) :
                     s[j] = Colon /\ \A k \in 1..(j - 1) : s[k] # Colon
         IN <<SubSeq(s, 1, i - 1)>> \o Split(SubSeq(s, i + 1, Len(s)))

\* Only the first of the data parts is kept
JoinFirst(parts) == IF parts = <<>> THEN <<>> ELSE parts[1]

RECURSIVE Join(_)
\* dataParts.join(':')
Join(parts) ==
    IF parts = <<>> THEN <<>>
    ELSE IF Len(parts) = 1 THEN parts[1]
    ELSE parts[1] \o <<Colon>> \o Join(Tail(parts))

NaN == -1

RECURSIVE LeadingDigits(_, _, _)
LeadingDigits(s, acc, seen) ==
    IF s # <<>> /\ \E d \in 0..9 : DigitChars[d + 1] = s[1]
    THEN LeadingDigits(Tail(s),
                       acc * 10 + (CHOOSE d \in 0..9 : DigitChars[d + 1] = s[1]),
                       TRUE)
    ELSE IF seen THEN acc ELSE NaN

\* parseInt(s, 10) of a string without sign
parseInt(s) == LeadingDigits(TrimStart(s), 0, FALSE)

\* LoginPage.tsx:108-119: kind is "single" when the text does not start
\* with the tag, "short" when it has fewer than five parts
ParseEnvelope(decodedText) ==
    LET trimmedText == Trim(decodedText)
        parts == Split(trimmedText)
    IN IF ~startsWith(trimmedText, EnvelopeTag)
       THEN [kind |-> "single", parts |-> 0, sessionId |-> <<>>, index |-> 0,
             total |-> 0, data |-> trimmedText]
       ELSE IF Len(parts) < 5
       THEN [kind |-> "short", parts |-> Len(parts), sessionId |-> <<>>,
             index |-> 0, total |-> 0, data |-> <<>>]
       ELSE [kind |-> "multi", parts |-> Len(parts), sessionId |-> parts[2],
             index |-> parseInt(parts[3]), total |-> parseInt(parts[4]),
             data |-> Join(SubSeq(parts, 5, Len(parts)))]

\* --- the component ---
InitAnim ==
    /\ showQr = FALSE /\ qrChunks = <<>> /\ currentQrIndex = 0
    /\ animationIntervalRef = 0 /\ intervals = {} /\ canvas = <<>>
    /\ qmounted = TRUE /\ qwire = <<>> /\ qfields = <<>> /\ wrapped = FALSE

\* The index stays where it is
nextIndexStuck(prevIndex, n) == prevIndex % n

\* (prevIndex + 1) % qrChunks.length
nextIndex(prevIndex, n) == (prevIndex + 1) % n

\* window.setInterval returns an id not in use
FreshInterval == IF animationIntervalRef = 1 THEN 2 ELSE 1

\* ProfilePage.tsx:496-504, followed by the effect's else branch
stopQrAnimation ==
    /\ intervals' = intervals \ {animationIntervalRef}
    /\ animationIntervalRef' = 0
    /\ showQr' = FALSE /\ qrChunks' = <<>> /\ currentQrIndex' = 0

\* ProfilePage.tsx:506-554 and the effect of 556-593 that the two state
\* updates trigger.  The button is rendered only while no code is shown
\* (ProfilePage.tsx:696-701).  drawn = FALSE: QRCode.toCanvas rejects and the
\* catch handler calls stopQrAnimation.
handleGenerateQrCode(w, sessionId, drawn) ==
    /\ qmounted /\ ~showQr
    /\ qwire' = w /\ qfields' = chunkFields(w, sessionId)
    /\ wrapped' = FALSE
    /\ IF drawn
       THEN /\ qrChunks' = chunks(w, sessionId)
            /\ showQr' = TRUE
            /\ canvas' = chunks(w, sessionId)[1]
            /\ IF Len(chunks(w, sessionId)) > 1
               THEN /\ animationIntervalRef' = FreshInterval
                    /\ intervals' = intervals \cup {FreshInterval}
               ELSE UNCHANGED <<animationIntervalRef, intervals>>
            /\ UNCHANGED currentQrIndex
       ELSE /\ stopQrAnimation
            /\ UNCHANGED canvas
    /\ UNCHANGED qmounted

\* The interval callback of ProfilePage.tsx:573-579
AnimTick(id, drawn) ==
    /\ qmounted /\ id \in intervals
    /\ LET next == nextIndex(currentQrIndex, Len(qrChunks))
       IN IF drawn
          THEN /\ currentQrIndex' = next
               /\ canvas' = qrChunks[next + 1]
               /\ wrapped' = (wrapped \/ next = 0)
               /\ UNCHANGED <<showQr, qrChunks, animationIntervalRef, intervals>>
          ELSE /\ stopQrAnimation
               /\ UNCHANGED <<canvas, wrapped>>
    /\ UNCHANGED <<qmounted, qwire, qfields>>

\* The Done button (ProfilePage.tsx:696-701)
Done ==
    /\ qmounted /\ showQr
    /\ stopQrAnimation
    /\ UNCHANGED <<canvas, qmounted, qwire, qfields, wrapped>>

\* Leaving the page: the effect's cleanup (ProfilePage.tsx:588-592); the
\* component's state is gone with it.
LeavePage ==
    /\ qmounted
    /\ qmounted' = FALSE
    /\ intervals' = intervals \ {animationIntervalRef}
    /\ showQr' = FALSE /\ qrChunks' = <<>> /\ currentQrIndex' = 0
    /\ UNCHANGED <<animationIntervalRef, canvas, qwire, qfields, wrapped>>

Tick == \E id \in {1, 2}, drawn \in BOOLEAN : AnimTick(id, drawn)

NextAnim ==
    \/ \E w \in Wires, s \in QrSessionIds, drawn \in BOOLEAN :
          handleGenerateQrCode(w, s, drawn)
    \/ Tick
    \/ Done
    \/ LeavePage

IdleAnim ==
    /\ InitAnim

(***************************************************************************)
(* useFinance: financeReducer on accounts, holdings and transactions       *)
(* state = [accounts, transactions]; an account is [id, name, category,    *)
(* balance, holdings], a holding [id, name, quantity, price, value], a     *)
(* transaction [id, accountName, amount] with "" for no accountName.       *)
(* Generated ids are numbers; lastUpdated is left out.                     *)
(***************************************************************************)
\* String.prototype.toLowerCase on the names used here
toLowerCase(s) ==
    CASE s = "Broker" -> "broker"
      [] s = "Bank" -> "bank"
      [] s = "AAPL" -> "aapl"
      [] OTHER -> s

\* arr.findIndex(P) + 1, so 0 when nothing is found
FirstOf(S) == IF S = {} THEN 0 ELSE CHOOSE i \in S : \A j \in S : i <= j

FindIndex(P(_), arr) == FirstOf({i \in 1..Len(arr) : P(arr[i])})

\* useFinance.tsx:56-84, the parts the reducer cases below work on
initialData == [accounts |-> <<>>, transactions |-> <<>>]

\* `acc-${Date.now()}-${Math.random()}`, `hld-...`: the j-th id made by call n
GeneratedId(n, j) == n * 10 + j

NoTransaction == [id |-> 0, accountName |-> "", amount |-> 0]

NoHolding == [id |-> 0, name |-> "", quantity |-> 0, price |-> 0, value |-> 0]

NoAccountData == [id |-> 0, name |-> "", category |-> "", balance |-> 0,
                  holdings |-> NoHoldings]

\* Partial<Account> of UPDATE_ACCOUNT and Partial<Holding> of UPDATE_HOLDING
NoData == [hasName |-> FALSE, name |-> "", hasBalance |-> FALSE, balance |-> 0,
           hasQuantity |-> FALSE, quantity |-> 0, hasPrice |-> FALSE, price |-> 0]

\* An action: type and payload (useFinance.tsx:17-52), fresh for the ids
NoAction ==
    [type |-> "NONE", transaction |-> NoTransaction, accounts |-> <<>>,
     oldName |-> "", newName |-> "", id |-> 0, holdingId |-> 0,
     data |-> NoData, holding |-> NoHolding, price |-> 0, fresh |-> 0]

HoldingsList(acc) == IF acc.holdings.def THEN acc.holdings.items ELSE <<>>

\* The entry's holding if there is an entry, else h
FirstOrElse(entries, h) == IF entries = <<>> THEN h ELSE entries[1].h

\* arr.length > 0 ? arr : undefined
NonEmptyOrUndefined(items) ==
    IF Len(items) > 0 THEN [def |-> TRUE, items |-> items] ELSE NoHoldings

\* useFinance.tsx:88-104
ADD_TRANSACTION(state, a) ==
    LET t == a.transaction
        accountIndex ==
            IF t.accountName # ""
            THEN FindIndex(LAMBDA acc : toLowerCase(acc.name)
                                          = toLowerCase(t.accountName),
                           state.accounts)
            ELSE 0
    IN [accounts |-> IF accountIndex # 0
                     THEN [state.accounts EXCEPT
                             ![accountIndex].balance = @ + t.amount]
                     ELSE state.accounts,
        transactions |-> <<t>> \o state.transactions]

RECURSIVE AddHoldings(_, _, _, _)
\* useFinance.tsx:134-141: newHolding has no id of its own
AddHoldings(updatedHoldings, newHoldings, n, j) ==
    IF newHoldings = <<>> THEN updatedHoldings
    ELSE LET newHolding == newHoldings[1]
             holdingIndex == FindIndex(LAMBDA h : h.name = newHolding.name,
                                       updatedHoldings)
         IN AddHoldings(
              IF holdingIndex # 0
              THEN [updatedHoldings EXCEPT
                      ![holdingIndex] =
                          [newHolding EXCEPT !.id = updatedHoldings[holdingIndex].id]]
              ELSE Append(updatedHoldings,
                          [newHolding EXCEPT !.id = GeneratedId(n, j)]),
              Tail(newHoldings), n, j + 1)

RECURSIVE AddAccounts(_, _, _)
\* useFinance.tsx:126-159, the forEach over the payload
AddAccounts(updatedAccounts, newAccounts, n) ==
    IF newAccounts = <<>> THEN updatedAccounts
    ELSE
      LET newAccountData == newAccounts[1]
          index == FindIndex(LAMBDA acc : acc.name = newAccountData.name
                                           /\ acc.category = newAccountData.category,
                             updatedAccounts)
          existingAccount == updatedAccounts[index]
          updatedHoldings ==
              AddHoldings(HoldingsList(existingAccount),
                          HoldingsList(newAccountData), n, 1)
      IN AddAccounts(
           IF index # 0
           THEN [updatedAccounts EXCEPT ![index] =
                   [id |-> existingAccount.id,
                    name |-> newAccountData.name,
                    category |-> newAccountData.category,
                    holdings |-> NonEmptyOrUndefined(updatedHoldings),
                    balance |-> IF newAccountData.holdings.def
                                THEN SumValues(updatedHoldings)
                                ELSE newAccountData.balance]]
           ELSE Append(updatedAccounts,
                  [newAccountData EXCEPT
                     !.id = GeneratedId(n, 0),
                     !.holdings =
                        IF @.def
                        THEN [def |-> TRUE,
                              items |-> [j \in 1..Len(@.items) |->
                                           [@.items[j] EXCEPT
                                              !.id = GeneratedId(n, j)]]]
                        ELSE @]),
           Tail(newAccounts), n)

\* useFinance.tsx:125-166
ADD_ACCOUNTS(state, a) ==
    [state EXCEPT !.accounts = AddAccounts(state.accounts, a.accounts, a.fresh)]

\* t.accountName?.toLowerCase() === name.toLowerCase() ? {...t, accountName: to} : t
MoveTransactions(transactions, name, to) ==
    [i \in 1..Len(transactions) |->
        IF transactions[i].accountName # ""
           /\ toLowerCase(transactions[i].accountName) = toLowerCase(name)
        THEN [transactions[i] EXCEPT !.accountName = to]
        ELSE transactions[i]]

\* useFinance.tsx:177-186
RENAME_ACCOUNT(state, a) ==
    LET accountIndex == FindIndex(LAMBDA acc : toLowerCase(acc.name)
                                                = toLowerCase(a.oldName),
                                  state.accounts)
    IN IF accountIndex = 0 THEN state
       ELSE [accounts |-> [state.accounts EXCEPT ![accountIndex].name = a.newName],
             transactions |-> MoveTransactions(state.transactions, a.oldName,
                                               a.newName)]

RECURSIVE destHoldingsAfter(_, _, _)
\* useFinance.tsx:196-205: destHoldings after the forEach.  An entry is
\* [h, owner, at]: the holding object, and whose it is in the prior state
\* (the at-th holding of the destination "d" or of the source "s").
destHoldingsAfter(destHoldings, sourceHoldings, j) ==
    IF sourceHoldings = <<>> THEN destHoldings
    ELSE LET sourceHolding == sourceHoldings[1]
             existingHoldingIndex ==
                 FindIndex(LAMBDA e : toLowerCase(e.h.name)
                                        = toLowerCase(sourceHolding.name),
                           destHoldings)
         IN destHoldingsAfter(
              IF existingHoldingIndex # 0
              THEN [destHoldings EXCEPT
                      ![existingHoldingIndex].h.quantity = @ + sourceHolding.quantity,
                      ![existingHoldingIndex].h.value = @ + sourceHolding.value]
              ELSE Append(destHoldings,
                          [h |-> sourceHolding, owner |-> "s", at |-> j]),
              Tail(sourceHoldings), j + 1)

\* The source and the destination of MERGE_ACCOUNTS (useFinance.tsx:189-191):
\* indices into state.accounts, 0 when the case returns state
MergeSource(state, a) ==
    FindIndex(LAMBDA acc : toLowerCase(acc.name) = toLowerCase(a.oldName),
              state.accounts)

MergeDest(state, a) ==
    FindIndex(LAMBDA acc : toLowerCase(acc.name) = toLowerCase(a.newName),
              state.accounts)

\* !sourceAccount || !destAccount || sourceAccount.id === destAccount.id
MergeApplies(state, s, d) ==
    s # 0 /\ d # 0 /\ state.accounts[s].id # state.accounts[d].id

MergedHoldings(destAccount, sourceAccount) ==
    destHoldingsAfter([i \in 1..Len(HoldingsList(destAccount)) |->
                         [h |-> HoldingsList(destAccount)[i], owner |-> "d",
                          at |-> i]],
                      HoldingsList(sourceAccount), 1)

\* useFinance.tsx:193-210 with the source, the destination and destHoldings
MergeInto(state, sourceAccount, destAccount, destHoldings) ==
    [accounts |->
        SelectSeq([i \in 1..Len(state.accounts) |->
                     IF state.accounts[i].id = destAccount.id
                     THEN [state.accounts[i] EXCEPT
                             !.balance = @ + sourceAccount.balance,
                             !.holdings = NonEmptyOrUndefined(
                                 [k \in 1..Len(destHoldings) |-> destHoldings[k].h])]
                     ELSE state.accounts[i]],
                  LAMBDA acc : acc.id # sourceAccount.id),
     transactions |-> MoveTransactions(state.transactions, sourceAccount.name,
                                       destAccount.name)]

MergeAt(state, s, d) ==
    IF ~MergeApplies(state, s, d) THEN state
    ELSE MergeInto(state, state.accounts[s], state.accounts[d],
                   MergedHoldings(state.accounts[d], state.accounts[s]))

\* useFinance.tsx:187-211
MERGE_ACCOUNTS(state, a) ==
    MergeAt(state, MergeSource(state, a), MergeDest(state, a))

\* The holding object that was the at-th holding of owner, as it is now
ObjectNow(destHoldings, owner, at, h) ==
    FirstOrElse(SelectSeq(destHoldings,
                          LAMBDA e : e.owner = owner /\ e.at = at), h)

Seen(destHoldings, acc, owner) ==
    IF acc.holdings.def
    THEN [acc EXCEPT !.holdings.items =
            [i \in 1..Len(@) |-> ObjectNow(destHoldings, owner, i, @[i])]]
    ELSE acc

PriorAfterAt(state, s, d, destHoldings) ==
    [state EXCEPT !.accounts =
       [i \in 1..Len(@) |->
          IF i = d THEN Seen(destHoldings, @[i], "d")
          ELSE IF i = s THEN Seen(destHoldings, @[i], "s")
          ELSE @[i]]]

PriorAfterMergeAt(state, s, d) ==
    IF ~MergeApplies(state, s, d) THEN state
    ELSE PriorAfterAt(state, s, d,
                      MergedHoldings(state.accounts[d], state.accounts[s]))

\* The prior state as it is after MERGE_ACCOUNTS returned: the `+=` of lines
\* 200-201 write to holding objects that the prior state's accounts hold.
PriorAfterMerge(state, a) ==
    PriorAfterMergeAt(state, MergeSource(state, a), MergeDest(state, a))

\* useFinance.tsx:212-213: {...t, ...action.payload}
UPDATE_TRANSACTION(state, a) ==
    [state EXCEPT !.transactions =
        [i \in 1..Len(@) |-> IF @[i].id = a.transaction.id THEN a.transaction
                             ELSE @[i]]]

\* useFinance.tsx:219-220
DELETE_TRANSACTION(state, a) ==
    [state EXCEPT !.transactions = SelectSeq(@, LAMBDA t : t.id # a.id)]

\* useFinance.tsx:221-232
UPDATE_ACCOUNT(state, a) ==
    LET found == FindIndex(LAMBDA acc : acc.id = a.id, state.accounts)
        accountToUpdate == state.accounts[found]
        data == a.data
    IN IF found = 0 THEN state
       ELSE [accounts |->
               [i \in 1..Len(state.accounts) |->
                  IF state.accounts[i].id = a.id
                  THEN [state.accounts[i] EXCEPT
                          !.name = IF data.hasName THEN data.name ELSE @,
                          !.balance = IF data.hasBalance THEN data.balance ELSE @]
                  ELSE state.accounts[i]],
             transactions |->
               IF data.hasName /\ data.name # "" /\ data.name # accountToUpdate.name
               THEN [i \in 1..Len(state.transactions) |->
                       IF state.transactions[i].accountName = accountToUpdate.name
                       THEN [state.transactions[i] EXCEPT !.accountName = data.name]
                       ELSE state.transactions[i]]
               ELSE state.transactions]

\* useFinance.tsx:233-241
DELETE_ACCOUNT(state, a) ==
    LET found == FindIndex(LAMBDA acc : acc.id = a.id, state.accounts)
        accountToDelete == state.accounts[found]
    IN IF found = 0 THEN state
       ELSE [accounts |-> SelectSeq(state.accounts, LAMBDA acc : acc.id # a.id),
             transactions |->
               SelectSeq(state.transactions,
                         LAMBDA t : t.accountName # accountToDelete.name)]

\* useFinance.tsx:258-268: {...h, ...data}, value recomputed when price or
\* quantity is given
UpdatedHolding(h, data) ==
    LET merged1 == [h EXCEPT
                      !.quantity = IF data.hasQuantity THEN data.quantity ELSE @,
                      !.price = IF data.hasPrice THEN data.price ELSE @]
    IN IF data.hasPrice \/ data.hasQuantity
       THEN [merged1 EXCEPT !.value = merged1.quantity * merged1.price]
       ELSE merged1

\* useFinance.tsx:242-278: ADD_HOLDING, UPDATE_HOLDING, REMOVE_HOLDING
HOLDING(state, a) ==
    LET accountIndex == FindIndex(LAMBDA acc : acc.id = a.id, state.accounts)
        accountToUpdate == state.accounts[accountIndex]
        before == HoldingsList(accountToUpdate)
        currentHoldings ==
            IF a.type = "ADD_HOLDING"
            THEN Append(before,
                        [a.holding EXCEPT
                           !.id = GeneratedId(a.fresh, 1),
                           !.value = a.holding.quantity * a.holding.price])
            ELSE IF a.type = "UPDATE_HOLDING"
            THEN [i \in 1..Len(before) |->
                    IF before[i].id = a.holdingId
                    THEN UpdatedHolding(before[i], a.data) ELSE before[i]]
            ELSE SelectSeq(before, LAMBDA h : h.id # a.holdingId)
    IN IF accountIndex = 0 THEN state
       ELSE [state EXCEPT !.accounts[accountIndex] =
               [accountToUpdate EXCEPT
                  !.holdings = [def |-> TRUE, items |-> currentHoldings],
                  !.balance = SumValues(currentHoldings)]]

\* useFinance.tsx:279-301, one price update in the payload
UPDATE_HOLDING_PRICES(state, a) ==
    [state EXCEPT !.accounts =
        [i \in 1..Len(@) |->
           LET holdings == HoldingsList(@[i])
               updated == [j \in 1..Len(holdings) |->
                             IF holdings[j].id = a.holdingId
                             THEN [holdings[j] EXCEPT
                                     !.price = a.price,
                                     !.value = holdings[j].quantity * a.price]
                             ELSE holdings[j]]
               accountBalanceChanged ==
                   \E j \in 1..Len(holdings) : holdings[j].id = a.holdingId
           IN [@[i] EXCEPT
                 !.holdings = [def |-> TRUE, items |-> updated],
                 !.balance = IF accountBalanceChanged THEN SumValues(updated)
                             ELSE @]]]

\* useFinance.tsx:86-318
financeReducer(state, a) ==
    CASE a.type = "ADD_TRANSACTION" -> ADD_TRANSACTION(state, a)
      [] a.type = "ADD_ACCOUNTS" -> ADD_ACCOUNTS(state, a)
      [] a.type = "RENAME_ACCOUNT" -> RENAME_ACCOUNT(state, a)
      [] a.type = "MERGE_ACCOUNTS" -> MERGE_ACCOUNTS(state, a)
      [] a.type = "UPDATE_TRANSACTION" -> UPDATE_TRANSACTION(state, a)
      [] a.type = "DELETE_TRANSACTION" -> DELETE_TRANSACTION(state, a)
      [] a.type = "UPDATE_ACCOUNT" -> UPDATE_ACCOUNT(state, a)
      [] a.type = "DELETE_ACCOUNT" -> DELETE_ACCOUNT(state, a)
      [] a.type \in {"ADD_HOLDING", "UPDATE_HOLDING", "REMOVE_HOLDING"}
           -> HOLDING(state, a)
      [] a.type = "UPDATE_HOLDING_PRICES" -> UPDATE_HOLDING_PRICES(state, a)
      [] a.type = "CLEAR_DATA" -> initialData
      [] OTHER -> state

\* The state object handed to financeReducer, as it is after the call
PriorAfter(state, a) ==
    IF a.type = "MERGE_ACCOUNTS" THEN PriorAfterMerge(state, a) ELSE state

\* --- what the pages dispatch ---
AccountNames == {"Broker", "Bank"}

CategoryOf(name) == IF name = "Broker" THEN "Investments" ELSE "Bank Accounts"

\* A holding as a form or the assistant supplies it
HoldingInput(name, quantity) ==
    [id |-> 0, name |-> name, quantity |-> quantity, price |-> 10,
     value |-> quantity * 10]

\* Account data whose balance agrees with its holdings when it has any
AccountInputs ==
    {[id |-> 0, name |-> n, category |-> CategoryOf(n), balance |-> 100,
      holdings |-> NoHoldings] : n \in AccountNames}
    \cup {[id |-> 0, name |-> n, category |-> CategoryOf(n), balance |-> 10 * q,
           holdings |-> [def |-> TRUE, items |-> <<HoldingInput(h, q)>>]] :
            n \in AccountNames, h \in {"AAPL", "aapl"}, q \in {1, 2}}

AccountIdsOf(state) == {state.accounts[i].id : i \in 1..Len(state.accounts)}

HoldingIdsOf(state) ==
    UNION {{HoldingsList(state.accounts[i])[j].id :
              j \in 1..Len(HoldingsList(state.accounts[i]))} :
           i \in 1..Len(state.accounts)}

TransactionIdsOf(state) ==
    {state.transactions[i].id : i \in 1..Len(state.transactions)}

\* addTransaction (useFinance.tsx:403-414): an expense, stored negative
TransactionInputs(n) ==
    {[id |-> GeneratedId(n, 0), accountName |-> an, amount |-> -5] :
        an \in {"", "broker", "Bank"}}

Actions(state, n) ==
    {[NoAction EXCEPT !.type = "ADD_TRANSACTION", !.transaction = t] :
        t \in TransactionInputs(n)}
    \cup {[NoAction EXCEPT !.type = "ADD_ACCOUNTS", !.accounts = <<acc>>,
                           !.fresh = n] : acc \in AccountInputs}
    \cup {[NoAction EXCEPT !.type = "RENAME_ACCOUNT", !.oldName = o,
                           !.newName = "Savings"] : o \in {"broker"}}
    \cup {[NoAction EXCEPT !.type = "MERGE_ACCOUNTS", !.oldName = p[1],
                           !.newName = p[2]] :
            p \in {q \in AccountNames \X AccountNames : q[1] # q[2]}}
    \cup {[NoAction EXCEPT !.type = "UPDATE_TRANSACTION",
                           !.transaction = [id |-> i, accountName |-> "Bank",
                                            amount |-> -7]] :
            i \in TransactionIdsOf(state)}
    \cup {[NoAction EXCEPT !.type = "DELETE_TRANSACTION", !.id = i] :
            i \in TransactionIdsOf(state)}
    \cup {[NoAction EXCEPT !.type = "UPDATE_ACCOUNT", !.id = i, !.data = d] :
            i \in AccountIdsOf(state),
            d \in {[NoData EXCEPT !.hasName = TRUE, !.name = "Savings"]}}
    \cup {[NoAction EXCEPT !.type = "DELETE_ACCOUNT", !.id = i] :
            i \in AccountIdsOf(state)}
    \cup {[NoAction EXCEPT !.type = "ADD_HOLDING", !.id = i, !.fresh = n,
                           !.holding = HoldingInput("AAPL", 1)] :
            i \in AccountIdsOf(state)}
    \cup {[NoAction EXCEPT !.type = "UPDATE_HOLDING", !.id = i, !.holdingId = h,
                           !.data = [NoData EXCEPT !.hasQuantity = TRUE,
                                                   !.quantity = 3]] :
            i \in AccountIdsOf(state), h \in HoldingIdsOf(state)}
    \cup {[NoAction EXCEPT !.type = "REMOVE_HOLDING", !.id = i, !.holdingId = h] :
            i \in AccountIdsOf(state), h \in HoldingIdsOf(state)}
    \cup {[NoAction EXCEPT !.type = "UPDATE_HOLDING_PRICES", !.holdingId = h,
                           !.price = 20] : h \in HoldingIdsOf(state)}

NoCall == [action |-> NoAction, prior |-> initialData, priorAfter |-> initialData,
           once |-> initialData, twice |-> initialData]

\* strictMode: the development build, where React.StrictMode (index.tsx:25-34)
\* runs the reducer a second time on the same prior state and keeps that
\* result; the production build runs it once.
InitFinance ==
    /\ fstate = initialData /\ fcalls = 0 /\ flast = NoCall /\ fprev = NoCall
    /\ strictMode \in BOOLEAN

\* dispatch(a)
Dispatch(a) ==
    /\ fcalls < MaxCalls
    /\ LET prior == PriorAfter(fstate, a)
           once == financeReducer(fstate, a)
           twice == financeReducer(prior, a)
       IN /\ fstate' = IF strictMode THEN twice ELSE once
          /\ flast' = [action |-> a, prior |-> fstate, priorAfter |-> prior,
                       once |-> once, twice |-> twice]
    /\ fprev' = flast
    /\ fcalls' = fcalls + 1
    /\ UNCHANGED strictMode

\* The functions of useFinance that dispatch (useFinance.tsx:402-453)
addTransaction(a) == a.type = "ADD_TRANSACTION" /\ Dispatch(a)

updateTransaction(a) == a.type = "UPDATE_TRANSACTION" /\ Dispatch(a)

deleteTransaction(a) == a.type = "DELETE_TRANSACTION" /\ Dispatch(a)

addAccounts(a) == a.type = "ADD_ACCOUNTS" /\ Dispatch(a)

updateAccount(a) == a.type = "UPDATE_ACCOUNT" /\ Dispatch(a)

renameAccount(a) == a.type = "RENAME_ACCOUNT" /\ Dispatch(a)

mergeAccounts(a) == a.type = "MERGE_ACCOUNTS" /\ Dispatch(a)

deleteAccount(a) == a.type = "DELETE_ACCOUNT" /\ Dispatch(a)

addHolding(a) == a.type = "ADD_HOLDING" /\ Dispatch(a)

updateHolding(a) == a.type = "UPDATE_HOLDING" /\ Dispatch(a)

removeHolding(a) == a.type = "REMOVE_HOLDING" /\ Dispatch(a)

updateHoldingPrices(a) == a.type = "UPDATE_HOLDING_PRICES" /\ Dispatch(a)

NextFinance ==
    \/ \E a \in Actions(fstate, fcalls + 1) : addTransaction(a)
    \/ \E a \in Actions(fstate, fcalls + 1) : updateTransaction(a)
    \/ \E a \in Actions(fstate, fcalls + 1) : deleteTransaction(a)
    \/ \E a \in Actions(fstate, fcalls + 1) : addAccounts(a)
    \/ \E a \in Actions(fstate, fcalls + 1) : updateAccount(a)
    \/ \E a \in Actions(fstate, fcalls + 1) : renameAccount(a)
    \/ \E a \in Actions(fstate, fcalls + 1) : mergeAccounts(a)
    \/ \E a \in Actions(fstate, fcalls + 1) : deleteAccount(a)
    \/ \E a \in Actions(fstate, fcalls + 1) : addHolding(a)
    \/ \E a \in Actions(fstate, fcalls + 1) : updateHolding(a)
    \/ \E a \in Actions(fstate, fcalls + 1) : removeHolding(a)
    \/ \E a \in Actions(fstate, fcalls + 1) : updateHoldingPrices(a)

IdleFinance ==
    /\ fstate = initialData /\ fcalls = 0 /\ flast = NoCall /\ fprev = NoCall
    /\ strictMode = FALSE

(***************************************************************************)
(* Specifications                                                          *)
(***************************************************************************)
IdleMerge ==
    /\ hostData = EmptyFinance /\ clientData = EmptyFinance
    /\ merged = EmptyFinance /\ mpc = "idle"

IdleCodec ==
    /\ payload = NoPayload /\ encoder = "none" /\ wire = EmptyWire
    /\ decoded = NullResult /\ cpc = "idle" /\ status = "Initializing..."
    /\ spUser = Undef /\ spStore = NoStore /\ spKey = Null

StartMerge ==
    /\ InitMerge
    /\ IdleCodec
    /\ IdleLogin
    /\ IdlePeer
    /\ IdleHost
    /\ IdleClone
    /\ IdleAnim
    /\ IdleFinance

SpecMerge ==
    /\ StartMerge
    /\ [][NextMerge
          /\ UNCHANGED <<codecVars, loginVars, peerVars, hostVars,
                 cloneVars, animVars, finVars>>]_vars

StartCodec ==
    /\ InitCodec
    /\ IdleMerge
    /\ IdleLogin
    /\ IdlePeer
    /\ IdleHost
    /\ IdleClone
    /\ IdleAnim
    /\ IdleFinance

SpecCodec ==
    /\ StartCodec
    /\ [][NextCodec
          /\ UNCHANGED <<mergeVars, loginVars, peerVars, hostVars,
                 cloneVars, animVars, finVars>>]_vars

StartLogin ==
    /\ InitLogin
    /\ IdleMerge
    /\ IdleCodec
    /\ IdlePeer
    /\ IdleHost
    /\ IdleClone
    /\ IdleAnim
    /\ IdleFinance

SpecLogin ==
    /\ StartLogin
    /\ [][NextLogin
          /\ UNCHANGED <<mergeVars, codecVars, peerVars, hostVars,
                 cloneVars, animVars, finVars>>]_vars

StartPeer ==
    /\ InitPeer
    /\ IdleMerge
    /\ IdleCodec
    /\ IdleLogin
    /\ IdleHost
    /\ IdleClone
    /\ IdleAnim
    /\ IdleFinance

SpecPeer ==
    /\ StartPeer
    /\ [][NextPeer
          /\ UNCHANGED <<mergeVars, codecVars, loginVars, hostVars,
                 cloneVars, animVars, finVars>>]_vars

StartHost ==
    /\ InitHost
    /\ IdleMerge
    /\ IdleCodec
    /\ IdleLogin
    /\ IdlePeer
    /\ IdleClone
    /\ IdleAnim
    /\ IdleFinance

SpecHost ==
    /\ StartHost
    /\ [][NextHost
          /\ UNCHANGED <<mergeVars, codecVars, loginVars, peerVars,
                 cloneVars, animVars, finVars>>]_vars

StartClone ==
    /\ InitClone
    /\ IdleMerge
    /\ IdleCodec
    /\ IdleLogin
    /\ IdlePeer
    /\ IdleHost
    /\ IdleAnim
    /\ IdleFinance

SpecClone ==
    /\ StartClone
    /\ [][NextClone
          /\ UNCHANGED <<mergeVars, codecVars, loginVars, peerVars,
                 hostVars, animVars, finVars>>]_vars

StartAnim ==
    /\ InitAnim
    /\ IdleMerge
    /\ IdleCodec
    /\ IdleLogin
    /\ IdlePeer
    /\ IdleHost
    /\ IdleClone
    /\ IdleFinance

SpecAnim ==
    /\ StartAnim
    /\ [][NextAnim
          /\ UNCHANGED <<mergeVars, codecVars, loginVars, peerVars,
                 hostVars, cloneVars, finVars>>]_vars
    /\ WF_vars(Tick
               /\ UNCHANGED <<mergeVars, codecVars, loginVars, peerVars,
                 hostVars, cloneVars, finVars>>)

StartFinance ==
    /\ InitFinance
    /\ IdleMerge
    /\ IdleCodec
    /\ IdleLogin
    /\ IdlePeer
    /\ IdleHost
    /\ IdleClone
    /\ IdleAnim

SpecFinance ==
    /\ StartFinance
    /\ [][NextFinance
          /\ UNCHANGED <<mergeVars, codecVars, loginVars, peerVars,
                 hostVars, cloneVars, animVars>>]_vars

(***************************************************************************)
(* LoginPage claims                                                        *)
(***************************************************************************)
\* C2: when every envelope of a session of NumChunks >= 2 parts has been
\* delivered to the scan callback, each within the timeout window and with
\* nothing else happening on the page, and no call is waiting for the
\* scanner to stop, the receiver has decoded exactly the original wire
\* string.
C2_MultiPartReassembled ==
    (/\ mounted /\ ~navigated /\ lmode = "scan"
     /\ delivered = 1..NumChunks /\ ~disturbed /\ conts = <<>>)
        => (processed > 0 /\ lastSingle = WireV2)

\* trimmedText starts with none of FINT_M_V1:, FINT_V2:, FINT_C_V1:
NoKnownPrefix(text) ==
    text # <<>> /\ ~StartsWith(text, "FINT_V2:") /\ ~StartsWith(text, "FINT_C_V1:")

ScanLeftDeviceAlone ==
    /\ lastOutcome = "error"
    /\ <<authUser, financeState, storedApiKey>> = preScan

IsPayloadJson(text) ==
    LET p == ParseSingle(text)
    IN p.def /\ ~Falsy(p.user) /\ p.hasFinanceData /\ p.hasApiKey

ScanModeLeft == ~mounted \/ (lmode = "create" /\ committedMode = "create")

\* C16: after scan mode has been left no scanner is running.
C16_NoScannerAfterLeaving ==
    ScanModeLeft => (\A i \in 1..MaxScanners : scanners[i].st # "scanning")

\* C17: when the 5 second timeout of a collection fires, the collection is
\* reset and the page holds the scan-timeout error.
C17_TimeoutErrorShown ==
    [][(\E t \in 1..3 : ScanTimeout(t))
          => (~scanProgress'.def /\ scanError' = "timeout")]_vars

\* text holds fragments of both broadcast sessions
MixesSessions(text) ==
    /\ \E k \in 1..Len(text) : \E n \in 1..Len(Frags) : text[k] = Frags[n]
    /\ \E k \in 1..Len(text) : \E n \in 1..Len(OtherFrags) : text[k] = OtherFrags[n]

UnreadableFrames ==
    {ShortEnvelope, SingleFrame(<<"FINT_V9:zzz">>), SingleFrame(<<"FINT_V2:bad">>)}

\* C19: the scan callback leaves the scanners, the collection, the pending
\* timeouts and the error as they were when it is given a frame that is
\* neither a well-formed envelope nor a decodable wire string.
C19_UnreadableFrameIgnored ==
    [][\A i \in 1..MaxScanners, f \in UnreadableFrames :
          Frame(i, f) => /\ scanners' = scanners
                         /\ scanProgress' = scanProgress
                         /\ timers' = timers
                         /\ scanError' = scanError]_vars

\* C26: completion is reported only for a collection that holds every
\* index 1..total, and no string handed on for decoding has a missing
\* fragment in it.
C26_CompleteOnlyWithAllParts ==
    /\ \A k \in 1..Len(conts) :
          conts[k].kind = "multi" => DOMAIN conts[k].chunks = 1..conts[k].total
    /\ \A k \in 1..Len(lastSingle) : lastSingle[k] # "undefined"

\* C27: while the mounted page holds a collection with at least one
\* fragment and fewer than its total, a scan timeout is pending.
C27_PartialCollectionHasTimeout ==
    (/\ mounted /\ scanProgress.def
     /\ scanProgress.collected >= 1
     /\ scanProgress.collected < scanProgress.total)
        => timers # {}

\* C20: after scan mode has been left no chunk timeout is pending.
C20_NoTimeoutAfterLeaving ==
    ScanModeLeft => timers = {}

(***************************************************************************)
(* Claims about the peer session                                           *)
(***************************************************************************)
\* C7: a message that is no well-formed payload (the arrays missing, or
\* records without their required fields), handled by the host's data
\* handler, leaves the host's snapshot and credential as they were and
\* nothing is sent back.
C7_HostRejectsMalformed ==
    hostRx.kind \in {"noArrays", "partialRecords"}
        => (hostRx.after = hostRx.before /\ ~hostRx.replied)

SameSnapshot(a, b) ==
    /\ a.transactions = b.transactions
    /\ a.accounts = b.accounts
    /\ a.conversationHistory = b.conversationHistory

\* C10: in a session of the two devices in which both ran this program's
\* handlers only, once the device that scanned the code has applied what it
\* received, the merge was computed exactly once, by the host, and the
\* client's transactions, accounts and conversation history are the merged
\* snapshot the host committed.
C10_SingleMergeOnHost ==
    (~foreign /\ conn.st # "none" /\ conn.dialer \in applied)
        => (/\ merges = 1
            /\ committed.def
            /\ SameSnapshot(pdata[conn.dialer], committed.data))

\* conn.send calls made by d's open handler on the present connection
SentOnOpen(d) ==
    IF d \in conn.opened /\ ListenerOf(conn, d).mode = "scan" THEN 1 ELSE 0

\* C11: on a connection between the two devices on which only this
\* program's handlers ran, the device that scanned the code has sent its
\* payload once when its end is open, the device that showed the code has
\* sent nothing but the merged payload, at most once, and exactly once when
\* the scanning device has applied what it received.
C11_EachSideSendsOnce ==
    (~foreign /\ conn.st # "none")
        => (/\ (conn.dialer \in conn.opened => SentOnOpen(conn.dialer) = 1)
            /\ SentOnOpen(Other(conn.dialer)) = 0
            /\ merges <= 1
            /\ (conn.dialer \in applied => merges = 1))

\* C15: while a device's Device Sync mode is 'select' it has no Peer, its
\* end of a connection is not open and its camera scanner is not running.
C15_NothingLeftInSelect ==
    \A d \in Dev :
        pmode[d] = "select"
            => (~peer[d].alive /\ ~scanner[d].on /\ ~EndOpen(d))

(***************************************************************************)
(* Claims about a hosting device                                           *)
(***************************************************************************)
\* C12: while the device hosts, at most one inbound connection has the data
\* listeners, and at most one client's payload has triggered a merge.
C12_OneInboundConnection ==
    /\ Cardinality({c \in Client : hconns[c].listeners}) <= 1
    /\ Cardinality(hmerged) <= 1

\* C13: after the host's data handler ran, a host that had a credential
\* stored still has that credential, a host that had none has the
\* client's, and the payload sent back carries the host's credential if it
\* had one and the client's otherwise.
C13_HostCredentialPriority ==
    hsync.def =>
        LET expected == IF Falsy(hsync.keyBefore) THEN hsync.clientKey
                        ELSE hsync.keyBefore
        IN hsync.keyAfter = expected /\ hsync.replyKey = expected

\* C25: the host's data handler merges the client's payload into the
\* snapshot the device holds at the moment the payload is received, so a
\* change made while hosting (Delete All My Data) is in the merged result
\* and in the payload sent back.
C25_HostMergesCurrentSnapshot ==
    hsync.def =>
        /\ hsync.dataAfter = mergeFinanceData(hsync.dataBefore, hsync.remoteData)
        /\ hsync.replyData = hsync.dataAfter

(***************************************************************************)
(* Claims about the clone over the peer link                               *)
(***************************************************************************)
\* C14: once a clone was received and the page has rendered again, the
\* current user is the received user and the snapshot stored under that
\* user's id is the received snapshot, whoever was signed in before.
C14_CloneReplacesState ==
    (creceived.def /\ cphase = "rendered")
        => (/\ cuser = creceived.user
            /\ cstorage[cuser.id] = [def |-> TRUE, data |-> creceived.data])


(***************************************************************************)
(* Animated code claims                                                    *)
(***************************************************************************)
\* The most envelopes a wire string of the model is split into
MaxEnvelopes == (Len(WirePrefix) + MaxBody + ChunkSize - 1) \div ChunkSize

\* C21: while the code is shown the canvas holds the envelope at the
\* current index; showing starts at envelope 0 and every later step that
\* keeps the code shown moves from envelope i to envelope (i + 1) mod n, so
\* that each envelope comes up again and again until the code is no longer
\* shown; an interval is pending only while a code of more than one
\* envelope is shown; no step that ends with the code not shown draws.
C21_FramesCycle ==
    /\ [](showQr => (qrChunks # <<>> /\ canvas = qrChunks[currentQrIndex + 1]))
    /\ []((~showQr \/ Len(qrChunks) <= 1) => intervals = {})
    /\ []((showQr /\ Len(qrChunks) > 1) => intervals = {animationIntervalRef})
    /\ [][(~showQr /\ showQr') => currentQrIndex' = 0]_vars
    /\ [][(showQr /\ showQr')
            => currentQrIndex' = (currentQrIndex + 1) % Len(qrChunks)]_vars
    /\ [][~showQr' => canvas' = canvas]_vars
    /\ \A k \in 0..(MaxEnvelopes - 1) :
          (showQr /\ k < Len(qrChunks)) ~> (~showQr \/ currentQrIndex = k)

C21_Witness ==
    showQr /\ Len(qrChunks) = 3 /\ wrapped /\ currentQrIndex = 1

RECURSIVE ConcatData(_)
ConcatData(fs) == IF fs = <<>> THEN <<>> ELSE fs[1].data \o ConcatData(Tail(fs))

\* C22: the envelopes handleGenerateQrCode built from the wire string w
\* number ceil(len(w) / ChunkSize), carry one session id and that total,
\* have the indices 1..total in order and fragments of at most ChunkSize
\* characters, and their fragments concatenated in order give w; the
\* strings shown are built from exactly these fields.
C22_ChunksPartitionWire ==
    qwire # <<>> =>
      LET total == Len(qfields)
      IN /\ total * ChunkSize >= Len(qwire)
         /\ (total - 1) * ChunkSize < Len(qwire)
         /\ \A k \in 1..total :
               /\ qfields[k].index = k
               /\ qfields[k].total = total
               /\ qfields[k].sessionId = qfields[1].sessionId
               /\ Len(qfields[k].data) <= ChunkSize
         /\ ConcatData(qfields) = qwire
         /\ (showQr =>
               /\ Len(qrChunks) = total
               /\ \A k \in 1..total :
                     qrChunks[k] = chunkString(qfields[k].sessionId, k, total,
                                               qfields[k].data))

C22_Witness ==
    /\ showQr /\ Len(qfields) = 3
    /\ Len(qfields[3].data) < ChunkSize
    /\ Len(qfields[1].data) = ChunkSize

\* The frame the scan callback works on, from the parsed text
FrameOf(p) ==
    [multi |-> p.kind # "single", parts |-> p.parts, sessionId |-> "s1",
     index |-> p.index, total |-> p.total, data |-> <<>>]

\* A collection of the session with its first fragment only
PartialProgress ==
    [def |-> TRUE, sessionId |-> SessionId, total |-> NumChunks,
     collected |-> 1, chunks |-> PutChunk(<<>>, 1, <<Frags[1]>>)]

\* The first n characters of s
Prefix(s, n) == SubSeq(s, 1, n)

\* C23: parsing each envelope string that is shown gives back the session
\* id, index, total and fragment it was built from, also when the fragment
\* contains colons; every beginning of such a string that still has the
\* tag but fewer than five colon-separated parts is rejected, and the scan
\* callback leaves a collection it holds as it was.
C23_EnvelopeRoundTrip ==
    \A k \in 1..Len(qrChunks) :
       /\ LET p == ParseEnvelope(qrChunks[k])
          IN /\ p.kind = "multi"
             /\ p.sessionId = qfields[k].sessionId
             /\ p.index = qfields[k].index
             /\ p.total = qfields[k].total
             /\ p.data = qfields[k].data
       /\ \A n \in Len(EnvelopeTag)..Len(qrChunks[k]) :
             LET short == Prefix(qrChunks[k], n)
                 p == ParseEnvelope(short)
                 r == [LS EXCEPT !.scanProgress = PartialProgress]
             IN Len(Split(short)) < 5 =>
                  /\ p.kind = "short"
                  /\ onScanSuccess(r, PartialProgress, FrameOf(p)).scanProgress
                       = PartialProgress

C23_Witness ==
    /\ showQr /\ Len(qrChunks) = 2
    /\ \E i \in 1..Len(qfields[1].data) : qfields[1].data[i] = Colon
    /\ canvas = qrChunks[2]


(***************************************************************************)
(* Finance reducer claims                                                  *)
(***************************************************************************)
\* C24: in every state reached by dispatching transaction, account and
\* holding actions from the initial state, each account with a non-empty
\* holdings list has a balance equal to the sum of its holdings' values.
C24_BalanceIsSumOfHoldings ==
    \A i \in 1..Len(fstate.accounts) :
       LET acc == fstate.accounts[i]
       IN (acc.holdings.def /\ acc.holdings.items # <<>>)
            => acc.balance = SumValues(acc.holdings.items)

\* C28: the state handed to financeReducer is after the call what it was
\* before it, holdings included, and a second call with the same action on
\* the same prior state returns what the first call returned.
C28_ReducerLeavesPriorState ==
    /\ flast.priorAfter = flast.prior
    /\ flast.twice = flast.once

\* C30: when DELETE_TRANSACTION of an id directly follows the
\* ADD_TRANSACTION that added that id, accounts and transactions are what
\* they were before the add.
C30_AddThenDeleteRestores ==
    (/\ fprev.action.type = "ADD_TRANSACTION"
     /\ flast.action.type = "DELETE_TRANSACTION"
     /\ flast.action.id = fprev.action.transaction.id)
      => fstate = fprev.prior


(***************************************************************************)
(* SyncPage status claim                                                   *)
(***************************************************************************)
\* C29: once the status is 'Sync complete! Welcome back.' no later step
\* replaces it.
C29_CompleteStatusStays ==
    [][status = "Sync complete! Welcome back." => status' = status]_vars

====
